---------------------------- MODULE Spec2Model ----------------------------
(***************************************************************************)
(* A model of the Data Board dashboard (src/inflation_dashboard.py): the   *)
(* provider fetchers, the macro fetch loop of main() with its session      *)
(* state, and the chart builder.                                           *)
(*                                                                         *)
(* Numeric values are integers (fixed-point units of the provider's        *)
(* value).  A series (pandas Series indexed by yearly Period) is a         *)
(* sequence of points [y, v, nan] in index order; nan marks a NaN value.   *)
(***************************************************************************)
EXTENDS Integers, Sequences, FiniteSets, TLC

VARIABLES
    \* the dashboard: st.session_state, which lives across the runs of main()
    macro_key,          \* session_state.macro_key: None or a fetch key
    macro_cache,        \* session_state.macro_cache: country -> key -> entry
    macro_order,        \* list(session_state.macro_cache): its countries as inserted
    \* the dashboard: the run of main() under way
    pc,                 \* where the run is; "idle" between two runs
    world,              \* what the providers answer (fixed in a behaviour)
    compare_mode,       \* sidebar: multi-country comparison
    sel_countries,      \* sidebar: the selected countries, in selection order
    start_yr,           \* sidebar: From
    end_yr,             \* sidebar: To
    include_forecast,   \* sidebar: IMF WEO forecasts
    fetch_btn,          \* sidebar: Fetch Data pressed
    cache,              \* macro tab: the dict being filled by the fetch loop
    cache_order,        \* macro tab: list(cache), its countries as inserted
    cd,                 \* macro tab: the dict of the country being fetched
    step,               \* macro tab: the loop's step counter
    charts,             \* the figures handed to st.plotly_chart so far
    messages,           \* the st.info / st.error / st.warning texts of the run
    oil,                \* Oil Price tab: the brent and wti series
    oil_map,            \* Oil Price tab: the oil world map drawn
    world_map,          \* World Map tab: the figure and the two tables drawn
    exported,           \* Macro tab: the table of the Data & Download expander
    requests,           \* the fetcher calls made by the run so far
    \* the fetchers on their own
    fcall,              \* the call under way, [fn, resp]
    fret,               \* what the call returned
    fpc,                \* "call" before the call, "returned" after
    \* the chart builder on its own
    chart_in,           \* the arguments of build_line_chart
    chart_out,          \* the figure it returned
    \* history
    oil_seen,           \* what an earlier run drew on the Oil Price tab, if kept
    \* the fetchers under st.cache_data
    now,                \* the clock of the cache, in seconds
    data_cache,         \* the entries held: call -> [value, at]
    http,               \* per call, the HTTP requests sent and the calls made
    last_call,          \* the latest call: [n, key, at, hit, ret]
    \* the provider requests of the macro fetch loop
    in_flight,          \* the requests sent and not yet answered
    \* the mission letter generator (lettre_mission.py)
    lpc,                \* where the script is: collect, render, pause, exited
    prompt,             \* collect_data: the prompt under way, by its rank
    entered,            \* ask_liste: its list items, the items entered so far
    answers,            \* collect_data: its dict data, the answers stored so far
    last_read,          \* what the latest input() call gave: a line or an exception
    printed,            \* the messages written to the terminal
    pdf,                \* the PDF file on disk, if one was written
    exit_code           \* the exit code of the process, -1 while it runs

session == <<macro_key, macro_cache, macro_order>>
inputs == <<compare_mode, sel_countries, start_yr, end_yr, include_forecast, fetch_btn>>
loop == <<cache, cache_order, cd, step>>
shown == <<charts, messages, oil, oil_map, world_map, exported>>
mainVars == <<session, pc, world, inputs, loop, shown, requests>>
fetchVars == <<fcall, fret, fpc>>
chartVars == <<chart_in, chart_out>>
history == <<oil_seen>>
cacheVars == <<now, data_cache, http, last_call>>
netVars == <<in_flight>>
letterVars == <<lpc, prompt, entered, answers, last_read, printed, pdf, exit_code>>
vars == <<mainVars, fetchVars, chartVars, history, cacheVars, netVars, letterVars>>

-----------------------------------------------------------------------------
(* Bounds of the model and values of the environment.                      *)

\* datetime.now().year, as read by the fetchers and by main()
ThisYear == 2025

\* the largest number of entries of one provider response
MaxObs == 2

\* how far past this_year the modelled years reach
YearsAhead == 1

\* the largest number of traces handed to build_line_chart on its own
MaxTraces == 3

\* the calendar years a provider response may mention
DataYears == (ThisYear - 1)..(ThisYear + YearsAhead)

-----------------------------------------------------------------------------
(* Generic helpers.                                                        *)

SetMin(S) == CHOOSE x \in S : \A y \in S : x <= y
SetMax(S) == CHOOSE x \in S : \A y \in S : x >= y

RECURSIVE SortedSeq(_)
\* the elements of a finite set of integers in ascending order
SortedSeq(S) ==
    IF S = {} THEN <<>>
    ELSE LET m == SetMin(S) IN <<m>> \o SortedSeq(S \ {m})

\* the sequences over S of length at most n
SeqsUpTo(S, n) == UNION {[1..k -> S] : k \in 0..n}

Range(f) == {f[i] : i \in DOMAIN f}

Point(y, v) == [y |-> y, v |-> v, nan |-> FALSE]
NaNPoint(y) == [y |-> y, v |-> 0, nan |-> TRUE]

\* pd.Series(dtype=float)
EmptySeries == <<>>

SeriesYears(s) == {s[i].y : i \in DOMAIN s}

-----------------------------------------------------------------------------
(* Provider responses.                                                     *)
(*                                                                         *)
(* A JSON value of the WEO "values" object is one of: a number (t = "num"),*)
(* a numeric string ("str"), the string "no data" ("nodata"), the empty    *)
(* string ("empty"), null ("null"), any other string ("text").  A year key *)
(* is a plain year string ("plain") or a string that is no year ("bad").   *)

RawVal(t, n) == [t |-> t, n |-> n]
RawVals ==
    {RawVal("num", 0), RawVal("num", 3), RawVal("str", 5), RawVal("nodata", 0),
     RawVal("empty", 0), RawVal("null", 0), RawVal("text", 0)}

YearKey(form, y) == [form |-> form, y |-> y]
YearKeys == {YearKey("plain", y) : y \in DataYears} \cup {YearKey("bad", 0)}

Entries == [k : YearKeys, val : RawVals]

\* a JSON object: its keys are distinct
DistinctKeys(items) ==
    \A i, j \in DOMAIN items : i # j => items[i].k # items[j].k

ItemLists == {items \in SeqsUpTo(Entries, MaxObs) : DistinctKeys(items)}

\* info.<code>.lastActual: absent, a string holding an integer, another string
LastActuals ==
    {[t |-> "absent", n |-> 0], [t |-> "int", n |-> ThisYear - 2],
     [t |-> "int", n |-> ThisYear], [t |-> "text", n |-> 0]}

Statuses == {"ok", "neterr", "http", "badjson"}

\* what requests.get(WEO_URL/code/iso) can come back with
WeoSeriesResponses ==
    {[status |-> st, vshape |-> "dict", items |-> <<>>, la |-> [t |-> "absent", n |-> 0]]
        : st \in Statuses \ {"ok"}}
    \cup
    [status : {"ok"}, vshape : {"dict"}, items : ItemLists, la : LastActuals]
    \cup
    [status : {"ok"}, vshape : {"missing", "list"}, items : {<<>>}, la : LastActuals]

-----------------------------------------------------------------------------
(* fetch_weo_series                                                        *)

\* bool(val)
Truthy(val) ==
    CASE val.t = "num" -> val.n # 0
      [] val.t \in {"str", "nodata", "text"} -> TRUE
      [] OTHER -> FALSE

\* val not in ("no data", "")
NotNoData(val) == val.t \notin {"nodata", "empty"}

\* float(val) returns (does not raise)
FloatOk(val) == val.t \in {"num", "str"}
Float(val) == val.n

\* pd.Period(yr_str, freq="Y") / int(yr_str) returns (does not raise)
YearOk(k) == k.form = "plain"
YearOf(k) == k.y

\* the entry passes the filter of the loop body and both conversions succeed
Kept(e) == Truthy(e.val) /\ NotNoData(e.val) /\ FloatOk(e.val) /\ YearOk(e.k)

RECURSIVE RecordsOf(_)
\* the dict built by the loop over vals.items(): year -> float(val); an entry
\* whose conversion raises is passed over by the inner except
RecordsOf(items) ==
    IF items = <<>> THEN <<>>
    ELSE LET n == Len(items)
             e == items[n]
             rest == RecordsOf(SubSeq(items, 1, n - 1))
         IN IF Kept(e)
            THEN [y \in (DOMAIN rest) \cup {YearOf(e.k)} |->
                     IF y = YearOf(e.k) THEN Float(e.val) ELSE rest[y]]
            ELSE rest

\* the series of the records in the reverse order of their years
SeriesLatestFirst(d) ==
    LET ys == SortedSeq(DOMAIN d)
    IN [i \in 1..Len(ys) |-> Point(ys[Len(ys) + 1 - i], d[ys[Len(ys) + 1 - i]])]

\* pd.Series(records).sort_index()
SortedSeries(d) ==
    LET ys == SortedSeq(DOMAIN d)
    IN [i \in 1..Len(ys) |-> Point(ys[i], d[ys[i]])]

\* int(info.get("lastActual", str(now.year - 1)))
LastActualOf(la) == IF la.t = "absent" THEN ThisYear - 1 ELSE la.n

\* the exception raised inside the try block, "none" when it runs through
WeoSeriesFailure(resp) ==
    CASE resp.status = "neterr" -> "ConnectionError"
      [] resp.status = "http" -> "HTTPError"
      [] resp.status = "badjson" -> "JSONDecodeError"
      [] resp.la.t = "text" -> "ValueError"
      [] resp.vshape = "list" -> "AttributeError"
      [] OTHER -> "none"

\* a narrower handler: except requests.RequestException
CatchesRequestErrorsOnly(exc) == exc \in {"ConnectionError", "HTTPError"}

\* except Exception: every failure of the try block is caught
Catches(exc) == TRUE

fetch_weo_series(resp) ==
    LET exc == WeoSeriesFailure(resp)
    IN IF exc = "none"
       THEN [raised |-> FALSE, s |-> SortedSeries(RecordsOf(resp.items)),
             la |-> LastActualOf(resp.la)]
       ELSE IF Catches(exc)
       THEN [raised |-> FALSE, s |-> EmptySeries, la |-> ThisYear - 1]
       ELSE [raised |-> TRUE, s |-> EmptySeries, la |-> 0]

-----------------------------------------------------------------------------
(* fetch_weo_world                                                         *)

Iso3s == {"USA", "FRA"}

WorldYearKeys == {YearKey("plain", ThisYear - 1), YearKey("plain", ThisYear),
                  YearKey("bad", 0)}
WorldRawVals ==
    {RawVal("num", 0), RawVal("num", 3), RawVal("nodata", 0), RawVal("text", 0)}
WorldEntries == [k : WorldYearKeys, val : WorldRawVals]
WorldItemLists ==
    {items \in SeqsUpTo(WorldEntries, MaxObs - 1) : DistinctKeys(items)}

\* one member of values.<code>: a country code with its year dict, or with
\* something that is no dict
WorldRows ==
    [iso : Iso3s, isdict : {TRUE}, items : WorldItemLists]
    \cup [iso : Iso3s, isdict : {FALSE}, items : {<<>>}]

DistinctIsos(rows) ==
    \A i, j \in DOMAIN rows : i # j => rows[i].iso # rows[j].iso

WorldRowLists == {rows \in SeqsUpTo(WorldRows, 2) : DistinctIsos(rows)}

WeoWorldResponses ==
    {[status |-> st, vshape |-> "dict", rows |-> <<>>, la |-> [t |-> "absent", n |-> 0]]
        : st \in Statuses \ {"ok"}}
    \cup
    [status : {"ok"}, vshape : {"dict"}, rows : WorldRowLists, la : LastActuals]
    \cup
    [status : {"ok"}, vshape : {"missing", "list"}, rows : {<<>>}, la : LastActuals]

\* pd.DataFrame(): no rows, no columns
EmptyFrame == [index |-> <<>>, columns |-> <<>>, rows |-> <<>>]

FrameEmpty(df) == df.index = <<>> \/ df.columns = <<>>

\* the country rows kept by the outer loop: a dict whose row dict is not empty
WorldKeptRows(rows) ==
    SelectSeq(rows, LAMBDA r : r.isdict /\ DOMAIN RecordsOf(r.items) # {})

\* pd.DataFrame.from_dict(records, orient="index") with integer columns,
\* then sort_index(axis=1)
WorldFrame(rows) ==
    LET kept == WorldKeptRows(rows)
    IN [index |-> [i \in 1..Len(kept) |-> kept[i].iso],
        columns |-> SortedSeq(UNION {DOMAIN RecordsOf(kept[i].items) : i \in 1..Len(kept)}),
        rows |-> [iso \in {kept[i].iso : i \in 1..Len(kept)} |->
                    RecordsOf((CHOOSE r \in Range(kept) : r.iso = iso).items)]]

fetch_weo_world(resp) ==
    LET exc == WeoSeriesFailure(resp)
    IN IF exc = "none"
       THEN [raised |-> FALSE, df |-> WorldFrame(resp.rows), la |-> LastActualOf(resp.la)]
       ELSE IF Catches(exc)
       THEN [raised |-> FALSE, df |-> EmptyFrame, la |-> ThisYear - 1]
       ELSE [raised |-> TRUE, df |-> EmptyFrame, la |-> 0]

-----------------------------------------------------------------------------
(* fetch_fred_annual and fetch_yahoo_annual                                *)

\* a CSV cell: ok says whether pd.to_datetime / pd.to_numeric can read it
\* (errors="coerce" turns the others into NaT / NaN)
Cell(ok, n) == [ok |-> ok, n |-> n]

FredRows ==
    [d : {Cell(TRUE, y) : y \in DataYears} \cup {Cell(FALSE, 0)},
     v : {Cell(TRUE, 2), Cell(TRUE, 4), Cell(FALSE, 0)}]

\* csv: "two" when the text parses into two columns, "other" when not (an
\* error page, an empty body)
FredResponses ==
    {[status |-> st, csv |-> "two", rows |-> <<>>] : st \in Statuses \ {"ok"}}
    \cup [status : {"ok"}, csv : {"two"}, rows : SeqsUpTo(FredRows, MaxObs)]
    \cup {[status |-> "ok", csv |-> "other", rows |-> <<>>]}

RECURSIVE SumV(_)
SumV(obs) == IF obs = <<>> THEN 0 ELSE obs[1].v + SumV(Tail(obs))

\* df["value"].resample("YS").mean() with the index turned into yearly
\* periods: one point per year from the first to the last observed year, with
\* the mean of the year's observations, NaN for a year that has none
ResampleAnnualMean(obs) ==
    LET ys == {obs[i].y : i \in DOMAIN obs}
    IN IF ys = {} THEN EmptySeries
       ELSE LET lo == SetMin(ys)
                hi == SetMax(ys)
            IN [i \in 1..(hi - lo + 1) |->
                  LET y == lo + i - 1
                      of_y == SelectSeq(obs, LAMBDA o : o.y = y)
                  IN IF of_y = <<>> THEN NaNPoint(y)
                     ELSE Point(y, SumV(of_y) \div Len(of_y))]

\* df.dropna(): the rows whose date and value were both read
FredObs(rows) ==
    LET ok == SelectSeq(rows, LAMBDA r : r.d.ok /\ r.v.ok)
    IN [i \in 1..Len(ok) |-> [y |-> ok[i].d.n, v |-> ok[i].v.n]]

FredFailure(resp) ==
    CASE resp.status = "neterr" -> "ConnectionError"
      [] resp.status = "http" -> "HTTPError"
      [] resp.status = "badjson" -> "ParserError"
      [] resp.csv # "two" -> "ValueError"
      [] OTHER -> "none"

fetch_fred_annual(resp) ==
    LET exc == FredFailure(resp)
    IN IF exc = "none"
       THEN [raised |-> FALSE, s |-> ResampleAnnualMean(FredObs(resp.rows))]
       ELSE IF Catches(exc)
       THEN [raised |-> FALSE, s |-> EmptySeries]
       ELSE [raised |-> TRUE, s |-> EmptySeries]

\* shape: "chart" when chart.result[0] holds timestamp and adjclose lists,
\* "other" when a key or index is missing; a close is a number or null
YahooResponses ==
    {[status |-> st, shape |-> "chart", ts |-> <<>>, closes |-> <<>>]
        : st \in Statuses \ {"ok"}}
    \cup [status : {"ok"}, shape : {"chart"}, ts : SeqsUpTo(DataYears, MaxObs),
          closes : SeqsUpTo({Cell(TRUE, 2), Cell(TRUE, 4), Cell(FALSE, 0)}, MaxObs)]
    \cup {[status |-> "ok", shape |-> "other", ts |-> <<>>, closes |-> <<>>]}

YahooFailure(resp) ==
    CASE resp.status = "neterr" -> "ConnectionError"
      [] resp.status = "http" -> "HTTPError"
      [] resp.status = "badjson" -> "JSONDecodeError"
      [] resp.shape # "chart" -> "KeyError"
      [] Len(resp.ts) # Len(resp.closes) -> "ValueError"
      [] OTHER -> "none"

\* pd.DataFrame({"date": ..., "value": closes}).dropna()
YahooObs(resp) ==
    LET idx == SelectSeq([i \in 1..Len(resp.ts) |-> i], LAMBDA i : resp.closes[i].ok)
    IN [j \in 1..Len(idx) |-> [y |-> resp.ts[idx[j]], v |-> resp.closes[idx[j]].n]]

fetch_yahoo_annual(resp) ==
    LET exc == YahooFailure(resp)
    IN IF exc = "none"
       THEN [raised |-> FALSE, s |-> ResampleAnnualMean(YahooObs(resp))]
       ELSE IF Catches(exc)
       THEN [raised |-> FALSE, s |-> EmptySeries]
       ELSE [raised |-> TRUE, s |-> EmptySeries]

-----------------------------------------------------------------------------
(* Static configuration of the dashboard.                                  *)

\* COUNTRIES: display name -> provider codes (three of the catalog's entries)
COUNTRIES ==
    [c \in {"United States", "Euro Area", "France"} |->
        [weo |-> CASE c = "United States" -> "USA"
                   [] c = "Euro Area" -> "EURO"
                   [] OTHER -> "FRA"]]

\* list(COUNTRIES): the names in the order of the dict
COUNTRIES_keys == <<"United States", "Euro Area", "France">>

\* sorted(COUNTRIES.keys())
country_list == <<"Euro Area", "France", "United States">>

\* sorted(names): the names in country_list order
SortedNames(names) == SelectSeq(country_list, LAMBDA c : c \in Range(names))

\* weo_tasks: (weo_code, key, label)
weo_tasks ==
    << [weo_code |-> "PCPIPCH", key |-> "cpi", label |-> "CPI"],
       [weo_code |-> "NGDP_RPCH", key |-> "gdp", label |-> "GDP Growth"],
       [weo_code |-> "LUR", key |-> "unemp", label |-> "Unemployment"] >>

\* ind_meta: (key, label, unit, hl0, hl2)
ind_meta ==
    << [key |-> "cpi", label |-> "CPI Inflation (YoY %)", unit |-> "%",
        hl0 |-> TRUE, hl2 |-> TRUE],
       [key |-> "gdp", label |-> "Real GDP Growth (%)", unit |-> "%",
        hl0 |-> TRUE, hl2 |-> FALSE],
       [key |-> "unemp", label |-> "Unemployment Rate (%)", unit |-> "%",
        hl0 |-> FALSE, hl2 |-> FALSE] >>

POLICY_SERIES ==
    << [name |-> "Fed Funds Rate", sid |-> "FEDFUNDS"],
       [name |-> "ECB Deposit Rate", sid |-> "ECBDFR"],
       [name |-> "3M USD LIBOR", sid |-> "USD3MTD156N"],
       [name |-> "3M EURIBOR", sid |-> "EUR3MTD156N"] >>

YIELD_SERIES ==
    << [name |-> "US 10Y Treasury", sid |-> "GS10"],
       [name |-> "Euro Area 10Y", sid |-> "IRLTLT01EZM156N"],
       [name |-> "UK 10Y Gilt", sid |-> "IRLTLT01GBM156N"],
       [name |-> "Japan 10Y Bond", sid |-> "IRLTLT01JPM156N"] >>

SPREAD_SERIES ==
    << [name |-> "US IG Corp OAS", sid |-> "BAMLC0A0CM"],
       [name |-> "US HY Corp OAS", sid |-> "BAMLH0A0HYM2"],
       [name |-> "Euro HY OAS", sid |-> "BAMLHE00EHY0EY"] >>

FX_SERIES ==
    << [name |-> "EUR / USD", sid |-> "DEXUSEU"],
       [name |-> "GBP / USD", sid |-> "DEXUSUK"],
       [name |-> "JPY / USD", sid |-> "DEXJPUS"],
       [name |-> "CNY / USD", sid |-> "DEXCHUS"] >>

EQUITY_TICKERS ==
    << [name |-> "S&P 500", sid |-> "^GSPC"],
       [name |-> "CAC 40", sid |-> "^FCHI"],
       [name |-> "Euro Stoxx 50", sid |-> "^STOXX50E"],
       [name |-> "Nikkei 225", sid |-> "^N225"] >>

\* MAP_INDICATORS: name -> weo_code and unit
MAP_INDICATORS ==
    << [name |-> "CPI Inflation (%)", weo_code |-> "PCPIPCH", unit |-> "%"],
       [name |-> "Real GDP Growth (%)", weo_code |-> "NGDP_RPCH", unit |-> "%"],
       [name |-> "Unemployment Rate (%)", weo_code |-> "LUR", unit |-> "%"] >>

\* the number of colours of PALETTE
PaletteLen == 10

\* year_opts = list(range(1980, this_year + 7)), of which the model offers
\* the years around this_year
year_opts == {y \in 1980..(ThisYear + 6) : ThisYear - 1 <= y /\ y <= ThisYear + YearsAhead}

-----------------------------------------------------------------------------
(* Helpers of the dashboard.                                               *)

\* a clipping that leaves the year end out
ClipYearsBelowEnd(s, start, end) ==
    IF s = EmptySeries THEN s
    ELSE SelectSeq(s, LAMBDA p : start <= p.y /\ p.y < end)

\* clip_years(s, start, end): the points of s with start <= year <= end; an
\* empty series is returned as it is
clip_years(s, start, end) ==
    IF s = EmptySeries THEN s
    ELSE SelectSeq(s, LAMBDA p : start <= p.y /\ p.y <= end)

\* the historical part cut one year early: ann[ann.index < cut]
UpToBeforeCut(ann, last_act) == SelectSeq(ann, LAMBDA p : p.y < last_act)

\* ann[ann.index <= cut], cut = Period(last_act)
UpToCut(ann, last_act) == SelectSeq(ann, LAMBDA p : p.y <= last_act)

\* the forecast part cut one year early: ann[ann.index >= cut]
FromCut(ann, last_act) == SelectSeq(ann, LAMBDA p : p.y >= last_act)

\* ann[ann.index > cut]
AfterCut(ann, last_act) == SelectSeq(ann, LAMBDA p : p.y > last_act)

\* the entry kept for a series that came back empty, with the provider's
\* last-actual year instead of this_year - 1
EmptyEntryKeepingLastActual(last_act) ==
    [hist |-> EmptySeries, fcast |-> EmptySeries, last_act |-> last_act]

\* cd[key] of the else branch: (empty, empty, this_year - 1)
EmptyEntry(last_act) ==
    [hist |-> EmptySeries, fcast |-> EmptySeries, last_act |-> ThisYear - 1]

\* the body of the macro fetch loop for one (country, indicator): the tuple
\* (hist, fcast, last_act) stored as cd[key], from what fetch_weo_series gave
MacroEntry(r, start, end, with_forecast) ==
    IF r.s # EmptySeries
    THEN [hist |-> clip_years(UpToCut(r.s, r.la), start, end),
          fcast |-> IF with_forecast
                    THEN clip_years(AfterCut(r.s, r.la), start, end)
                    ELSE EmptySeries,
          last_act |-> r.la]
    ELSE EmptyEntry(r.la)

\* a dict with one more (or one replaced) item
Put(d, k, v) == [x \in (DOMAIN d) \cup {k} |-> IF x = k THEN v ELSE d[x]]

-----------------------------------------------------------------------------
(* build_line_chart                                                        *)
(*                                                                         *)
(* A trace dict is [label, hist, has_fcast, fcast, unit, color]; has_fcast *)
(* says whether the dict has the key "fcast".  The figure is               *)
(* [dual, yaxis, yaxis2, data, hlines]: data lists the go.Scatter traces   *)
(* in the order added, hlines the levels of the reference lines.           *)

Trace(label, hist, unit, color) ==
    [label |-> label, hist |-> hist, has_fcast |-> FALSE, fcast |-> EmptySeries,
     unit |-> unit, color |-> color]

TraceF(label, hist, fcast, unit, color) ==
    [label |-> label, hist |-> hist, has_fcast |-> TRUE, fcast |-> fcast,
     unit |-> unit, color |-> color]

\* t.get("fcast", pd.Series(dtype=float))
GetFcast(t) == IF t.has_fcast THEN t.fcast ELSE EmptySeries

RECURSIVE FirstSeen(_)
\* list(dict.fromkeys(seq)): the distinct elements in first-seen order
FirstSeen(seq) ==
    IF seq = <<>> THEN <<>>
    ELSE LET n == Len(seq)
             before == FirstSeen(SubSeq(seq, 1, n - 1))
         IN IF seq[n] \in Range(before) THEN before ELSE Append(before, seq[n])

\* the units of the traces that have a non-empty part
ChartUnits(traces) ==
    LET drawn == SelectSeq(traces, LAMBDA t : t.hist # EmptySeries \/ GetFcast(t) # EmptySeries)
    IN FirstSeen([i \in 1..Len(drawn) |-> drawn[i].unit])

\* is_sec of a mutant that sends only the second unit to the secondary axis
OnSecondaryIfSecondUnit(units, unit) == Len(units) >= 2 /\ unit = units[2]

\* is_sec = dual and unit != u1
OnSecondary(units, unit) == Len(units) >= 2 /\ unit # units[1]

\* show_legend=not t["hist"].empty
ForecastLegend(t) == t.hist # EmptySeries

\* _add(s, name, color, dash, unit, show_legend): the trace added, none for an
\* empty series
AddTrace(units, s, label, forecast, color, dash, unit, show_legend) ==
    IF s = EmptySeries THEN <<>>
    ELSE << [label |-> label, forecast |-> forecast, dash |-> dash,
             color |-> color, unit |-> unit, points |-> s,
             secondary_y |-> OnSecondary(units, unit),
             fill |-> dash = "solid" /\ Len(units) < 2,
             showlegend |-> show_legend] >>

RECURSIVE ChartData(_, _)
\* the loop over the traces: the historical part solid, the forecast part
\* dotted under the name label + " (forecast)"
ChartData(units, traces) ==
    IF traces = <<>> THEN <<>>
    ELSE LET t == Head(traces)
         IN AddTrace(units, t.hist, t.label, FALSE, t.color, "solid", t.unit, TRUE)
            \o AddTrace(units, GetFcast(t), t.label, TRUE, t.color, "dot", t.unit,
                        ForecastLegend(t))
            \o ChartData(units, Tail(traces))

\* the reference lines drawn for a chart whose zero line follows the units
HLinesByUnit(units, hline_zero, hline_2) ==
    (IF "%" \in Range(units) THEN {0} ELSE {}) \cup (IF hline_2 THEN {2} ELSE {})

\* if hline_zero: add_hline(y=0); if hline_2: add_hline(y=2)
HLines(units, hline_zero, hline_2) ==
    (IF hline_zero THEN {0} ELSE {}) \cup (IF hline_2 THEN {2} ELSE {})

build_line_chart(traces, title, hline_zero, hline_2) ==
    LET units == ChartUnits(traces)
        dual == Len(units) >= 2
    IN [title |-> title,
        dual |-> dual,
        yaxis |-> IF units # <<>> THEN units[1] ELSE "",
        yaxis2 |-> IF dual THEN units[2] ELSE "",
        data |-> ChartData(units, traces),
        hlines |-> HLines(units, hline_zero, hline_2)]

-----------------------------------------------------------------------------
(* build_world_map and the tables under the map                            *)

\* df_all[year].dropna(): the countries with a value for the year, in index
\* order
FrameColumn(df_all, year) ==
    LET idx == SelectSeq(df_all.index, LAMBDA iso : year \in DOMAIN df_all.rows[iso])
    IN [i \in 1..Len(idx) |-> [iso |-> idx[i], v |-> df_all.rows[idx[i]][year]]]

\* the figure: empty when the frame has no column for the year, else the
\* countries' values of the year, titled as a forecast after last_actual
build_world_map(df_all, year, last_actual, ind_name) ==
    IF year \notin Range(df_all.columns)
    THEN [empty |-> TRUE]
    ELSE [empty |-> FALSE, title |-> ind_name, year |-> year,
          forecast |-> year > last_actual, z |-> FrameColumn(df_all, year)]

RECURSIVE SortValuesDescending(_)
\* sort_values(ascending=False)
SortValuesDescending(col) ==
    IF col = <<>> THEN <<>>
    ELSE LET top == SetMax({col[i].v : i \in DOMAIN col})
             at == SetMin({i \in DOMAIN col : col[i].v = top})
         IN <<col[at]>>
            \o SortValuesDescending(SubSeq(col, 1, at - 1) \o SubSeq(col, at + 1, Len(col)))

\* col_data.head(10)
Head10(col) == SubSeq(col, 1, IF Len(col) < 10 THEN Len(col) ELSE 10)

\* col_data.tail(10).iloc[::-1]
Tail10Reversed(col) ==
    LET n == IF Len(col) < 10 THEN Len(col) ELSE 10
    IN [i \in 1..n |-> col[Len(col) + 1 - i]]

-----------------------------------------------------------------------------
(* The providers' data.  A world fixes, for one behaviour, what every      *)
(* provider request comes back with.                                       *)

Worlds == {"down", "mixed"}

Item(form, y, t, n) == [k |-> YearKey(form, y), val |-> RawVal(t, n)]

WeoOk(items, la) == [status |-> "ok", vshape |-> "dict", items |-> items, la |-> la]
WeoDown == [status |-> "http", vshape |-> "dict", items |-> <<>>,
            la |-> [t |-> "absent", n |-> 0]]

\* three years of values, the last actual one being this_year - 1
WeoSteady ==
    WeoOk(<< Item("plain", ThisYear - 1, "num", 3), Item("plain", ThisYear, "str", 5),
             Item("plain", ThisYear + 1, "num", 4) >>,
          [t |-> "absent", n |-> 0])

WeoData(w, weo_code, weo_iso) ==
    CASE w = "down" -> WeoDown
      [] OTHER ->
           CASE weo_iso = "USA" /\ weo_code = "PCPIPCH" -> WeoSteady
             [] weo_iso = "USA" /\ weo_code = "NGDP_RPCH" ->
                    WeoOk(<<Item("plain", ThisYear, "nodata", 0)>>,
                          [t |-> "int", n |-> ThisYear - 2])
             [] weo_iso = "USA" /\ weo_code = "LUR" ->
                    WeoOk(<< Item("plain", ThisYear, "num", 4),
                             Item("plain", ThisYear - 1, "num", 0),
                             Item("plain", ThisYear + 1, "text", 0) >>,
                          [t |-> "int", n |-> ThisYear])
             [] weo_iso = "FRA" /\ weo_code = "PCPIPCH" ->
                    [WeoDown EXCEPT !.status = "neterr"]
             [] weo_iso = "FRA" /\ weo_code = "NGDP_RPCH" ->
                    WeoOk(<< Item("plain", ThisYear + 1, "num", 3),
                             Item("bad", 0, "num", 3),
                             Item("plain", ThisYear, "num", 5) >>,
                          [t |-> "int", n |-> ThisYear - 2])
             [] OTHER -> WeoSteady

WorldRow(iso, items) == [iso |-> iso, isdict |-> TRUE, items |-> items]

WeoWorldSteady ==
    [status |-> "ok", vshape |-> "dict",
     rows |-> << WorldRow("USA", << Item("plain", ThisYear - 1, "num", 3),
                                    Item("plain", ThisYear, "str", 5),
                                    Item("plain", ThisYear + 1, "num", 4) >>),
                 WorldRow("FRA", << Item("plain", ThisYear + 1, "num", 6),
                                    Item("plain", ThisYear - 1, "num", 2) >>) >>,
     la |-> [t |-> "absent", n |-> 0]]

WeoWorldData(w, weo_code) ==
    CASE w = "down" -> [WeoWorldSteady EXCEPT !.status = "http", !.rows = <<>>]
      [] OTHER ->
           CASE weo_code = "PCPIPCH" ->
                    [WeoWorldSteady EXCEPT !.vshape = "missing", !.rows = <<>>]
             [] weo_code = "NGDP_RPCH" ->
                    [WeoWorldSteady EXCEPT
                        !.rows = << [iso |-> "USA", isdict |-> FALSE, items |-> <<>>],
                                    WorldRow("FRA", << Item("plain", ThisYear, "num", 1),
                                                       Item("bad", 0, "num", 3) >>) >>,
                        !.la = [t |-> "int", n |-> ThisYear - 2]]
             [] OTHER -> WeoWorldSteady

FredOk(rows) == [status |-> "ok", csv |-> "two", rows |-> rows]
FredDown == [status |-> "http", csv |-> "two", rows |-> <<>>]
FredRow(y, v) == [d |-> Cell(TRUE, y), v |-> Cell(TRUE, v)]

FredSteady ==
    FredOk(<< FredRow(ThisYear - 1, 2), FredRow(ThisYear - 1, 4),
              FredRow(ThisYear, 4), FredRow(ThisYear + 1, 2) >>)

FredData(w, sid) ==
    CASE w = "down" -> FredDown
      [] OTHER ->
           CASE sid \in {"FEDFUNDS", "GS10", "DEXUSEU", "DCOILWTICO"} -> FredSteady
             [] sid \in {"ECBDFR", "BAMLC0A0CM", "DCOILBRENTEU"} ->
                    FredOk(<< FredRow(ThisYear + 1, 4),
                              [d |-> Cell(TRUE, ThisYear), v |-> Cell(FALSE, 0)],
                              FredRow(ThisYear - 1, 2) >>)
             [] sid \in {"USD3MTD156N", "DEXUSUK"} ->
                    [status |-> "ok", csv |-> "other", rows |-> <<>>]
             [] OTHER -> FredDown

YahooOk(ts, closes) == [status |-> "ok", shape |-> "chart", ts |-> ts, closes |-> closes]
YahooDown == [status |-> "neterr", shape |-> "chart", ts |-> <<>>, closes |-> <<>>]

YahooSteady ==
    YahooOk(<<ThisYear - 1, ThisYear, ThisYear, ThisYear + 1>>,
            <<Cell(TRUE, 2), Cell(TRUE, 2), Cell(TRUE, 4), Cell(TRUE, 4)>>)

YahooData(w, ticker) ==
    CASE w = "down" -> YahooDown
      [] OTHER ->
           CASE ticker = "^GSPC" -> YahooSteady
             [] ticker = "^FCHI" ->
                    YahooOk(<<ThisYear, ThisYear + 1>>, <<Cell(FALSE, 0), Cell(TRUE, 4)>>)
             [] ticker = "^N225" -> YahooOk(<<ThisYear>>, <<>>)
             [] OTHER -> YahooDown

\* what the fetchers return, world by world, for the requests the dashboard
\* makes
WeoCodes == {weo_tasks[i].weo_code : i \in DOMAIN weo_tasks}
WeoIsos == {COUNTRIES[c].weo : c \in DOMAIN COUNTRIES}
FredIds ==
    UNION {{table[i].sid : i \in DOMAIN table}
              : table \in {POLICY_SERIES, YIELD_SERIES, SPREAD_SERIES, FX_SERIES}}
       \cup {"DCOILBRENTEU", "DCOILWTICO"}
YahooIds == {EQUITY_TICKERS[i].sid : i \in DOMAIN EQUITY_TICKERS}

WeoSeriesFetched ==
    [w \in Worlds |-> [code \in WeoCodes |-> [iso \in WeoIsos |->
        fetch_weo_series(WeoData(w, code, iso))]]]

WeoWorldFetched ==
    [w \in Worlds |-> [code \in WeoCodes |-> fetch_weo_world(WeoWorldData(w, code))]]

FredFetched ==
    [w \in Worlds |-> [sid \in FredIds |-> fetch_fred_annual(FredData(w, sid))]]

YahooFetched ==
    [w \in Worlds |-> [sid \in YahooIds |-> fetch_yahoo_annual(YahooData(w, sid))]]

-----------------------------------------------------------------------------
(* main(): one script run, from the reading of the sidebar to the last     *)
(* tab.  st.session_state lives across runs; everything else is local to   *)
(* the run.                                                                *)

None == <<>>

Label(text, country) == [text |-> text, country |-> country]

NoOil == [brent |-> EmptySeries, wti |-> EmptySeries]

NoMap == [shown |-> FALSE]

NoExport == [shown |-> FALSE]

NoLocals ==
    /\ compare_mode' = FALSE
    /\ sel_countries' = <<>>
    /\ start_yr' = 0
    /\ end_yr' = 0
    /\ include_forecast' = FALSE
    /\ fetch_btn' = FALSE
    /\ cache' = <<>>
    /\ cd' = <<>>
    /\ step' = 0
    /\ charts' = <<>>
    /\ messages' = <<>>
    /\ oil' = NoOil
    /\ oil_map' = NoMap
    /\ world_map' = NoMap
    /\ exported' = NoExport
    /\ cache_order' = <<>>
    /\ requests' = {}

\* the countries of the catalog that the user of the model picks from
SelectableCountries == {"France", "United States"}

\* what st.multiselect / st.selectbox can hand to the run
Selections(compare) ==
    IF compare
    THEN {s \in SeqsUpTo(SelectableCountries, Cardinality(SelectableCountries)) :
             \A i, j \in DOMAIN s : i # j => s[i] # s[j]}
    ELSE {<<c>> : c \in SelectableCountries}

\* fetch_key = (tuple(sorted(sel_countries)), start_yr, end_yr, include_forecast)
fetch_key == <<SortedNames(sel_countries), start_yr, end_yr, include_forecast>>

\* a validation that lets a range of one year through
ValidationAllowingOneYear(sel, sy, ey) ==
    IF sel = <<>> THEN "Select at least one country."
    ELSE IF sy > ey THEN "Start year must be before end year."
    ELSE ""

\* the validation of the inputs: the text of the st.info / st.error after
\* which main() returns, "" when the inputs pass
ValidationMessage(sel, sy, ey) ==
    IF sel = <<>> THEN "Select at least one country."
    ELSE IF sy >= ey THEN "Start year must be before end year."
    ELSE ""

\* the script starts: the sidebar is read and the inputs are validated
Rerun ==
    /\ pc = "idle"
    /\ \E cm \in BOOLEAN, fc \in BOOLEAN, btn \in BOOLEAN :
       \E sel \in Selections(cm), sy \in year_opts, ey \in year_opts :
          /\ compare_mode' = cm
          /\ sel_countries' = sel
          /\ start_yr' = sy
          /\ end_yr' = ey
          /\ include_forecast' = fc
          /\ fetch_btn' = btn
          /\ IF ValidationMessage(sel, sy, ey) # ""
             THEN /\ messages' = <<ValidationMessage(sel, sy, ey)>>
                  /\ pc' = "returned"
             ELSE messages' = <<>> /\ pc' = "tab_map"
    /\ UNCHANGED <<world, session, loop, charts, oil, oil_map, world_map, exported, requests, fetchVars,
                   chartVars, history, cacheVars, netVars, letterVars>>

\* the World Map year slider: min_value = max(start_yr, 1980)
SliderMin(sy) == IF sy > 1980 THEN sy ELSE 1980

\* the World Map year slider: value = min(this_year, end_yr)
SliderValue(ey) == IF ThisYear < ey THEN ThisYear ELSE ey

\* tab World Map: the indicator's frame for all countries is fetched; the
\* slider offers the years from max(start_yr, 1980) to end_yr with the value
\* min(this_year, end_yr), and st.slider raises when that value is below the
\* minimum, which ends the run; the map of the chosen year and the tables of
\* the highest and lowest values are drawn
TabMap ==
    /\ pc = "tab_map"
    /\ \E n \in DOMAIN MAP_INDICATORS :
          LET ind_cfg == MAP_INDICATORS[n]
              r == WeoWorldFetched[world][ind_cfg.weo_code]
              min_value == SliderMin(start_yr)
              value == SliderValue(end_yr)
          IN IF r.raised
             THEN pc' = "idle" /\ NoLocals
             ELSE /\ requests' = requests \cup {[fn |-> "fetch_weo_world",
                                                 a |-> ind_cfg.weo_code, b |-> ""]}
                  /\ UNCHANGED <<inputs, loop, charts, oil, oil_map, exported>>
                  /\ IF FrameEmpty(r.df)
                     THEN /\ messages' = Append(messages, "Could not load data from IMF WEO.")
                          /\ pc' = "tab_macro"
                          /\ UNCHANGED world_map
                     ELSE IF value < min_value
                     THEN /\ messages' = Append(messages, "StreamlitAPIException")
                          /\ pc' = "returned"
                          /\ UNCHANGED world_map
                     ELSE \E map_year \in min_value..end_yr :
                             LET col_data == SortValuesDescending(FrameColumn(r.df, map_year))
                                 has_col == map_year \in Range(r.df.columns)
                             IN /\ world_map' =
                                      [shown |-> TRUE,
                                       fig |-> build_world_map(r.df, map_year, r.la,
                                                               ind_cfg.name),
                                       top |-> IF has_col THEN Head10(col_data) ELSE <<>>,
                                       bot |-> IF has_col THEN Tail10Reversed(col_data)
                                               ELSE <<>>]
                                /\ pc' = "tab_macro"
                                /\ UNCHANGED messages
    /\ UNCHANGED <<world, session, fetchVars, chartVars, history, cacheVars, netVars, letterVars>>

\* the Macro tab is entered: a fetch starts when the button was pressed or
\* the key of the inputs is not the session's key
MacroBegin ==
    /\ pc = "tab_macro"
    /\ IF fetch_btn \/ macro_key # fetch_key
       THEN /\ macro_key' = fetch_key
            /\ cache' = <<>>
            /\ cache_order' = <<>>
            /\ cd' = <<>>
            /\ step' = 0
            /\ pc' = "fetch"
       ELSE /\ pc' = "display"
            /\ UNCHANGED <<macro_key, loop>>
    /\ UNCHANGED <<world, macro_cache, macro_order, inputs, shown, requests, fetchVars, chartVars, history, cacheVars, netVars, letterVars>>

n_total == Len(sel_countries) * Len(weo_tasks)

\* COUNTRIES[country].get("weo"): the code of the descriptor, "" standing for
\* the None of a descriptor that has none
GetWeo(desc) == IF "weo" \in DOMAIN desc THEN desc.weo ELSE ""

\* a loop that fetches whatever the descriptor holds
ConfiguredAlways(weo_iso) == TRUE

\* if weo_iso:
Configured(weo_iso) == weo_iso # ""

\* fetch_weo_series(weo_code, weo_iso) as the provider answers in world w
WeoAnswer(w, weo_code, weo_iso) ==
    IF weo_iso \in WeoIsos
    THEN WeoSeriesFetched[w][weo_code][weo_iso]
    ELSE fetch_weo_series(WeoData(w, weo_code, weo_iso))

\* one pass of the inner loop, the descriptors being read from catalog and
\* the run standing at position at: one (country, indicator) is fetched and
\* its entry stored in cd, unless the country has no code; after the
\* country's last indicator cache[country] = cd
FetchStep(catalog, at) ==
    /\ pc = at
    /\ step < n_total
    /\ LET country == sel_countries[(step \div Len(weo_tasks)) + 1]
           i_task == (step % Len(weo_tasks)) + 1
           task == weo_tasks[i_task]
           weo_iso == GetWeo(catalog[country])
           r == WeoAnswer(world, task.weo_code, weo_iso)
           cd1 == IF Configured(weo_iso)
                  THEN Put(cd, task.key, MacroEntry(r, start_yr, end_yr, include_forecast))
                  ELSE cd
       IN IF Configured(weo_iso) /\ r.raised
          THEN pc' = "idle" /\ NoLocals
          ELSE /\ IF i_task = Len(weo_tasks)
                  THEN /\ cache' = Put(cache, country, cd1)
                       /\ cache_order' = IF country \in Range(cache_order) THEN cache_order
                                         ELSE Append(cache_order, country)
                       /\ cd' = <<>>
                  ELSE cd' = cd1 /\ UNCHANGED <<cache, cache_order>>
               /\ step' = step + 1
               /\ requests' = IF Configured(weo_iso)
                               THEN requests \cup {[fn |-> "fetch_weo_series",
                                                    a |-> task.weo_code, b |-> weo_iso]}
                               ELSE requests
               /\ pc' = "fetch"
               /\ UNCHANGED <<inputs, shown>>
    /\ UNCHANGED <<world, session, fetchVars, chartVars, history, cacheVars, letterVars>>

\* the macro fetch loop of the dashboard, on its country catalog
MacroFetchStep ==
    /\ FetchStep(COUNTRIES, "fetch")
    /\ UNCHANGED netVars

\* the loop is over: st.session_state.macro_cache = cache
MacroStore ==
    /\ pc = "fetch"
    /\ step = n_total
    /\ macro_cache' = cache
    /\ macro_order' = cache_order
    /\ pc' = "display"
    /\ UNCHANGED <<world, macro_key, inputs, loop, shown, requests, fetchVars, chartVars, history, cacheVars, netVars, letterVars>>

\* the run is stopped inside the loop (a widget was touched: the framework
\* ends the script at its next st.* call, here prog.progress): the locals are
\* lost, the session state stays as it is
Interrupt ==
    /\ pc = "fetch"
    /\ step < n_total
    /\ pc' = "idle"
    /\ NoLocals
    /\ UNCHANGED <<world, session, fetchVars, chartVars, history, cacheVars, netVars, letterVars>>

\* the traces of one indicator tab in comparison mode
CompareTraces(macro, key, unit) ==
    LET idx == SelectSeq([i \in 1..Len(sel_countries) |-> i],
                         LAMBDA i : /\ sel_countries[i] \in DOMAIN macro
                                    /\ key \in DOMAIN macro[sel_countries[i]]
                                    /\ LET e == macro[sel_countries[i]][key]
                                       IN e.hist # EmptySeries \/ e.fcast # EmptySeries)
    IN [j \in 1..Len(idx) |->
          LET e == macro[sel_countries[idx[j]]][key]
          IN TraceF(Label("", sel_countries[idx[j]]), e.hist, e.fcast, unit,
                    (idx[j] - 1) % PaletteLen)]

\* the charts of the three indicator tabs, from macro = session macro_cache
MacroCharts(macro) ==
    LET chart(m) ==
          IF compare_mode
          THEN LET traces == CompareTraces(macro, m.key, m.unit)
               IN IF traces # <<>>
                  THEN <<build_line_chart(traces, Label(m.label, "Comparison"),
                                          m.hl0, m.hl2)>>
                  ELSE <<>>
          ELSE LET country == sel_countries[1]
               IN IF country \in DOMAIN macro /\ m.key \in DOMAIN macro[country]
                  THEN LET e == macro[country][m.key]
                       IN IF e.hist # EmptySeries \/ e.fcast # EmptySeries
                          THEN <<build_line_chart(
                                    <<TraceF(Label(m.label, country), e.hist, e.fcast,
                                             m.unit, 0)>>,
                                    Label(m.label, country), m.hl0, m.hl2)>>
                          ELSE <<>>
                  ELSE <<>>
    IN chart(ind_meta[1]) \o chart(ind_meta[2]) \o chart(ind_meta[3])

\* the st.info of the indicator tabs that have nothing to draw
MacroInfos(macro) ==
    LET info(m) ==
          IF compare_mode
          THEN IF CompareTraces(macro, m.key, m.unit) # <<>> THEN <<>>
               ELSE <<"No data - click Fetch Data.">>
          ELSE IF sel_countries[1] \in DOMAIN macro
                     /\ m.key \in DOMAIN macro[sel_countries[1]]
               THEN <<>>
               ELSE <<"No data - click Fetch Data.">>
    IN info(ind_meta[1]) \o info(ind_meta[2]) \o info(ind_meta[3])

RECURSIVE MergeByYear(_, _)
\* pd.concat([h, f]).sort_index() of two series that are each in year order
MergeByYear(h, f) ==
    IF h = <<>> THEN f
    ELSE IF f = <<>> THEN h
    ELSE IF Head(h).y <= Head(f).y THEN <<Head(h)>> \o MergeByYear(Tail(h), f)
    ELSE <<Head(f)>> \o MergeByYear(h, Tail(f))

\* frames: one column per (country, key) of macro whose series has a point,
\* the countries and their keys in the order they were inserted
ExportFrames(macro, order) ==
    LET cols(country) ==
          LET keys == SelectSeq([i \in DOMAIN weo_tasks |-> weo_tasks[i].key],
                                LAMBDA k : k \in DOMAIN macro[country])
              full == [i \in DOMAIN keys |->
                         [country |-> country, key |-> keys[i],
                          full |-> MergeByYear(macro[country][keys[i]].hist,
                                               macro[country][keys[i]].fcast)]]
          IN SelectSeq(full, LAMBDA c : c.full # EmptySeries)
        Frames[n \in 0..Len(order)] ==
          IF n = 0 THEN <<>> ELSE Frames[n - 1] \o cols(order[n])
    IN Frames[Len(order)]

\* the index sorted from the earliest year to the latest
SortIndexAscending(years) == SortedSeq(years)

\* sort_index(ascending=False): the index sorted from the latest year to the
\* earliest (the index holds the years as text, all of four digits)
SortIndexDescending(years) ==
    LET asc == SortedSeq(years)
    IN [i \in DOMAIN asc |-> asc[Len(asc) + 1 - i]]

\* the values of the series are fixed-point numbers counted in units of
\* 10^-5; a value cut to its thousandths, towards zero
Truncate3(v) ==
    LET a == IF v < 0 THEN 0 - v ELSE v
    IN [m |-> (IF v < 0 THEN -1 ELSE 1) * (a \div 100), neg |-> v < 0]

\* DataFrame.round(3): the nearest thousandth, a tie going to the even one;
\* m counts thousandths, and the sign is kept when the result is zero
Round3(v) ==
    LET a == IF v < 0 THEN 0 - v ELSE v
        q == a \div 100
        r == a % 100
        up == r > 50 \/ (r = 50 /\ q % 2 = 1)
    IN [m |-> (IF v < 0 THEN -1 ELSE 1) * (IF up THEN q + 1 ELSE q), neg |-> v < 0]

\* text is a sequence of characters, a column name standing as one
Digits == <<"0", "1", "2", "3", "4", "5", "6", "7", "8", "9">>

RECURSIVE NatText(_)
NatText(n) ==
    IF n < 10 THEN <<Digits[n + 1]>>
    ELSE NatText(n \div 10) \o <<Digits[(n % 10) + 1]>>

\* the text of a float that counts m thousandths, as repr writes it (below
\* 10^16): the sign, the integer part, the point, then the decimals without
\* their trailing zeros but never none
FloatText(m, neg) ==
    LET a == IF m < 0 THEN 0 - m ELSE m
        frac == a % 1000
        d1 == Digits[(frac \div 100) + 1]
        d2 == Digits[((frac \div 10) % 10) + 1]
        d3 == Digits[(frac % 10) + 1]
    IN (IF neg THEN <<"-">> ELSE <<>>)
       \o NatText(a \div 1000) \o <<".">>
       \o (IF frac % 100 = 0 THEN <<d1>>
           ELSE IF frac % 10 = 0 THEN <<d1, d2>>
           ELSE <<d1, d2, d3>>)

RECURSIVE Concat(_)
Concat(ss) == IF ss = <<>> THEN <<>> ELSE Head(ss) \o Concat(Tail(ss))

\* col_name = f"{country} - {key.upper()}" (the dash of the source is an em
\* dash)
ColName(country, key) ==
    country \o " - "
        \o (CASE key = "cpi" -> "CPI" [] key = "gdp" -> "GDP" [] OTHER -> "UNEMP")

\* combined.to_csv(): the header line with an empty first field (the index
\* has no name) and the column names, then one line per row: the year, then
\* each cell, empty when it is NaN; fields are separated by commas and lines
\* are ended by a newline
to_csv(columns, index, rows) ==
    LET header == Concat([j \in DOMAIN columns |->
                            <<",", ColName(columns[j].country, columns[j].key)>>])
                  \o <<"\n">>
        field(c) == IF c.nan THEN <<>> ELSE FloatText(c.m, c.neg)
        line(y) == NatText(y)
                   \o Concat([j \in DOMAIN columns |-> <<",">> \o field(rows[y][j])])
                   \o <<"\n">>
    IN header \o Concat([i \in DOMAIN index |-> line(index[i])])

\* combined = pd.concat(frames, axis=1).sort_index(ascending=False).round(3):
\* one row per year of any column, from the latest to the earliest, a cell
\* being NaN where the column has no point for the year, else the value
\* rounded; csv is the text handed to the CSV download button
ExportTable(macro, order) ==
    LET frames == ExportFrames(macro, order)
        years == UNION {SeriesYears(frames[j].full) : j \in DOMAIN frames}
        cell(j, y) ==
          IF y \in SeriesYears(frames[j].full)
          THEN LET i == CHOOSE i \in DOMAIN frames[j].full : frames[j].full[i].y = y
               IN IF frames[j].full[i].nan
                  THEN [y |-> y, nan |-> TRUE, m |-> 0, neg |-> FALSE]
                  ELSE [y |-> y, nan |-> FALSE,
                        m |-> Round3(frames[j].full[i].v).m,
                        neg |-> Round3(frames[j].full[i].v).neg]
          ELSE [y |-> y, nan |-> TRUE, m |-> 0, neg |-> FALSE]
    IN IF frames = <<>>
       THEN NoExport
       ELSE LET columns == [j \in DOMAIN frames |->
                              [country |-> frames[j].country, key |-> frames[j].key]]
                index == SortIndexDescending(years)
                rows == [y \in years |-> [j \in DOMAIN frames |-> cell(j, y)]]
            IN [shown |-> TRUE, columns |-> columns, index |-> index, rows |-> rows,
                csv |-> to_csv(columns, index, rows)]

\* the indicator tabs are drawn from st.session_state.macro_cache
MacroDisplay ==
    /\ pc = "display"
    /\ charts' = MacroCharts(macro_cache)
    /\ messages' = messages \o MacroInfos(macro_cache)
    /\ exported' = ExportTable(macro_cache, macro_order)
    /\ pc' = "tab_rates"
    /\ UNCHANGED <<world, session, inputs, loop, oil, oil_map, world_map, requests, fetchVars,
                   chartVars, history, cacheVars, netVars, letterVars>>

\* the traces of one FRED / Yahoo chart: one per series that is not empty
\* after clipping, coloured by its place in the table
ProviderTraces(table, fetched, unit) ==
    LET idx == SelectSeq([i \in 1..Len(table) |-> i],
                         LAMBDA i : clip_years(fetched[i], start_yr, end_yr) # EmptySeries)
    IN [j \in 1..Len(idx) |->
          Trace(Label(table[idx[j]].name, ""),
                clip_years(fetched[idx[j]], start_yr, end_yr), unit, idx[j] - 1)]

FredSeries(table) ==
    [i \in 1..Len(table) |-> FredFetched[world][table[i].sid].s]

FredRequests(table) ==
    {[fn |-> "fetch_fred_annual", a |-> table[i].sid, b |-> ""] : i \in 1..Len(table)}

ChartIf(traces, title, hline_zero) ==
    IF traces # <<>>
    THEN <<build_line_chart(traces, Label(title, ""), hline_zero, FALSE)>>
    ELSE <<>>

\* the st.warning of a chart with no trace
WarnIf(traces, text) == IF traces = <<>> THEN <<text>> ELSE <<>>

\* tab Rates & Credit: policy rates, bond yields, credit spreads
TabRates ==
    /\ pc = "tab_rates"
    /\ charts' = charts
          \o ChartIf(ProviderTraces(POLICY_SERIES, FredSeries(POLICY_SERIES), "%"),
                     "Policy & Interbank Rates", TRUE)
          \o ChartIf(ProviderTraces(YIELD_SERIES, FredSeries(YIELD_SERIES), "%"),
                     "10Y Government Bond Yields", TRUE)
          \o ChartIf(ProviderTraces(SPREAD_SERIES, FredSeries(SPREAD_SERIES), "bps"),
                     "Corporate Bond Spreads (OAS bps)", FALSE)
    /\ requests' = requests \cup FredRequests(POLICY_SERIES)
          \cup FredRequests(YIELD_SERIES) \cup FredRequests(SPREAD_SERIES)
    /\ messages' = messages
          \o WarnIf(ProviderTraces(POLICY_SERIES, FredSeries(POLICY_SERIES), "%"),
                    "Could not load rate data from FRED.")
          \o WarnIf(ProviderTraces(YIELD_SERIES, FredSeries(YIELD_SERIES), "%"),
                    "Could not load yield data from FRED.")
          \o WarnIf(ProviderTraces(SPREAD_SERIES, FredSeries(SPREAD_SERIES), "bps"),
                    "Could not load spread data from FRED.")
    /\ pc' = "tab_fx"
    /\ UNCHANGED <<world, session, inputs, loop, oil, oil_map, world_map, exported, fetchVars,
                   chartVars, history, cacheVars, netVars, letterVars>>

\* the oil series of a tab that draws WTI alone when the United States are
\* the first selected country
OilSeriesByCountry ==
    [brent |-> IF sel_countries[1] = "United States" THEN EmptySeries
               ELSE clip_years(FredFetched[world]["DCOILBRENTEU"].s,
                               start_yr, end_yr),
     wti |-> clip_years(FredFetched[world]["DCOILWTICO"].s,
                        start_yr, end_yr)]

\* the oil series of the Oil Price tab: Brent and WTI from FRED, clipped
OilSeries ==
    [brent |-> clip_years(FredFetched[world]["DCOILBRENTEU"].s,
                          start_yr, end_yr),
     wti |-> clip_years(FredFetched[world]["DCOILWTICO"].s,
                        start_yr, end_yr)]

OilTraces(o) ==
    (IF o.brent # EmptySeries
     THEN <<Trace(Label("Brent Crude", ""), o.brent, "USD/bbl", 1)>> ELSE <<>>)
    \o (IF o.wti # EmptySeries
        THEN <<Trace(Label("WTI Crude", ""), o.wti, "USD/bbl", 0)>> ELSE <<>>)

\* the codes of the whole catalog, whatever their length
AllCodes ==
    [i \in DOMAIN COUNTRIES_keys |-> GetWeo(COUNTRIES[COUNTRIES_keys[i]])]

\* iso3_all: the catalog's codes of exactly three characters, in its order
Iso3All ==
    SelectSeq([i \in DOMAIN COUNTRIES_keys |-> GetWeo(COUNTRIES[COUNTRIES_keys[i]])],
              LAMBDA code : Len(code) = 3)

\* build_oil_world_map: go.Figure() when the year is not in the index of
\* brent, else one choropleth with every code of iso3_all at the one price
build_oil_world_map(brent, year) ==
    IF \A i \in DOMAIN brent : brent[i].y # year
    THEN [empty |-> TRUE]
    ELSE LET p == CHOOSE q \in Range(brent) : q.y = year
         IN [empty |-> FALSE,
             year |-> year,
             price |-> [v |-> p.v, nan |-> p.nan],
             locations |-> Iso3All,
             z |-> [i \in DOMAIN Iso3All |-> [v |-> p.v, nan |-> p.nan]]]

\* oil_years of the Oil Price tab: the years of the clipped brent series
OilYears(o) == [i \in DOMAIN o.brent |-> o.brent[i].y]

\* tab FX & Oil: the exchange rates, the two crude oil benchmarks, then the
\* oil world map of the year picked on the slider
FxOilTab ==
    /\ pc = "tab_fx"
    /\ oil' = OilSeries
    /\ requests' = requests \cup FredRequests(FX_SERIES)
          \cup {[fn |-> "fetch_fred_annual", a |-> sid, b |-> ""]
                   : sid \in {"DCOILBRENTEU", "DCOILWTICO"}}
    /\ charts' = charts
          \o ChartIf(ProviderTraces(FX_SERIES, FredSeries(FX_SERIES), "rate"),
                     "Exchange Rates", FALSE)
          \o ChartIf(OilTraces(OilSeries), "Crude Oil Prices", FALSE)
    /\ LET shownSoFar ==
               messages
               \o WarnIf(ProviderTraces(FX_SERIES, FredSeries(FX_SERIES), "rate"),
                         "Could not load FX data from FRED.")
               \o WarnIf(OilTraces(OilSeries), "Could not load oil data from FRED.")
           oil_years == OilYears(OilSeries)
       IN IF oil_years = <<>>
          THEN /\ oil_map' = NoMap
               /\ messages' = shownSoFar
               /\ pc' = "tab_mkt"
          ELSE IF SetMin({ThisYear, oil_years[Len(oil_years)]}) < oil_years[1]
          THEN \* st.slider refuses a value below min_value
               /\ oil_map' = NoMap
               /\ messages' = Append(shownSoFar, "StreamlitAPIException")
               /\ pc' = "returned"
          ELSE \E oil_yr \in oil_years[1] .. oil_years[Len(oil_years)] :
                  /\ oil_map' = [shown |-> TRUE,
                                 fig |-> build_oil_world_map(OilSeries.brent, oil_yr)]
                  /\ messages' = shownSoFar
                  /\ pc' = "tab_mkt"
    /\ UNCHANGED <<world, session, inputs, loop, world_map, exported, fetchVars, chartVars,
                   cacheVars, netVars, letterVars>>

TabFxOil ==
    /\ FxOilTab
    /\ UNCHANGED history

\* the same tab, watched: the oil series of a run with France selected
\* alone, over the years from this_year - 1 to this_year + 1, may be kept,
\* once, to be held against what later runs draw
TabFxOilSeen ==
    /\ FxOilTab
    /\ \/ UNCHANGED history
       \/ /\ oil_seen = {}
          /\ sel_countries = <<"France">>
          /\ start_yr = ThisYear - 1 /\ end_yr = ThisYear + 1
          /\ oil_seen' = {[start_yr |-> start_yr, end_yr |-> end_yr, oil |-> OilSeries]}

\* s / base * 100 with base = s.iloc[0]
Rebased(s) ==
    [i \in 1..Len(s) |->
        IF s[i].nan \/ s[1].nan \/ s[1].v = 0 THEN NaNPoint(s[i].y)
        ELSE Point(s[i].y, (s[i].v * 100) \div s[1].v)]

\* (s.pct_change(1) * 100).dropna()
YoY(s) ==
    LET idx == SelectSeq([i \in 1..Len(s) |-> i],
                         LAMBDA i : i >= 2 /\ ~s[i].nan /\ ~s[i - 1].nan /\ s[i - 1].v # 0)
    IN [j \in 1..Len(idx) |->
          Point(s[idx[j]].y,
                ((s[idx[j]].v - s[idx[j] - 1].v) * 100) \div s[idx[j] - 1].v)]

MapHist(traces, F(_), unit) ==
    [i \in 1..Len(traces) |-> [traces[i] EXCEPT !.hist = F(traces[i].hist), !.unit = unit]]

\* tab Markets: the equity indices as levels, rebased to 100, and as returns
TabMarkets ==
    /\ pc = "tab_mkt"
    /\ LET fetched == [i \in 1..Len(EQUITY_TICKERS) |->
                          YahooFetched[world][EQUITY_TICKERS[i].sid].s]
           raw_traces == ProviderTraces(EQUITY_TICKERS, fetched, "Index")
           norm_traces == MapHist(raw_traces, Rebased, "Index (100=start)")
           yoy_traces == MapHist(SelectSeq(raw_traces, LAMBDA t : Len(t.hist) >= 2),
                                 YoY, "%")
       IN IF raw_traces = <<>>
          THEN /\ messages' = Append(messages, "Could not load market data from Yahoo Finance.")
               /\ UNCHANGED charts
          ELSE /\ charts' = charts
                     \o ChartIf(raw_traces, "Equity Indices - Level", FALSE)
                     \o ChartIf(norm_traces, "Rebased to 100", FALSE)
                     \o ChartIf(yoy_traces, "Equity Index Returns (YoY %)", TRUE)
               /\ UNCHANGED messages
    /\ requests' = requests
          \cup {[fn |-> "fetch_yahoo_annual", a |-> EQUITY_TICKERS[i].sid, b |-> ""]
                   : i \in 1..Len(EQUITY_TICKERS)}
    /\ pc' = "done"
    /\ UNCHANGED <<world, session, inputs, loop, oil, oil_map, world_map, exported, fetchVars,
                   chartVars, history, cacheVars, netVars, letterVars>>

\* main() returns: the locals of the run are gone
Return ==
    /\ pc \in {"returned", "done"}
    /\ pc' = "idle"
    /\ NoLocals
    /\ UNCHANGED <<world, session, fetchVars, chartVars, history, cacheVars, netVars, letterVars>>

-----------------------------------------------------------------------------
(* The dashboard: runs of main() one after the other on one session.       *)

MainOff ==
    /\ pc = "off"
    /\ world = "down"
    /\ macro_key = None
    /\ macro_cache = <<>>
    /\ compare_mode = FALSE
    /\ sel_countries = <<>>
    /\ start_yr = 0
    /\ end_yr = 0
    /\ include_forecast = FALSE
    /\ fetch_btn = FALSE
    /\ cache = <<>>
    /\ cd = <<>>
    /\ step = 0
    /\ charts = <<>>
    /\ messages = <<>>
    /\ oil = NoOil
    /\ world_map = NoMap
    /\ oil_map = NoMap
    /\ exported = NoExport
    /\ cache_order = <<>>
    /\ macro_order = <<>>
    /\ requests = {}

NoRet == [raised |-> FALSE]

FetchOff == fcall = [fn |-> "none"] /\ fret = [raised |-> FALSE] /\ fpc = "off"

ChartOff == chart_in = [traces |-> <<>>] /\ chart_out = [built |-> FALSE]

CacheOff ==
    /\ now = 0
    /\ data_cache = <<>>
    /\ http = <<>>
    /\ last_call = [n |-> 0]
    /\ in_flight = {}

NoPdf == [written |-> FALSE]

LetterOff ==
    /\ lpc = "off"
    /\ prompt = 0
    /\ entered = <<>>
    /\ answers = <<>>
    /\ last_read = [exc |-> "none", line |-> <<>>]
    /\ printed = {}
    /\ pdf = NoPdf
    /\ exit_code = -1

\* a new session: macro_cache = {} and macro_key = None, as the Macro tab
\* sets them before it first reads them
Init ==
    /\ pc = "idle"
    /\ world \in Worlds
    /\ macro_key = None
    /\ macro_cache = <<>>
    /\ compare_mode = FALSE
    /\ sel_countries = <<>>
    /\ start_yr = 0
    /\ end_yr = 0
    /\ include_forecast = FALSE
    /\ fetch_btn = FALSE
    /\ cache = <<>>
    /\ cd = <<>>
    /\ step = 0
    /\ charts = <<>>
    /\ messages = <<>>
    /\ oil = NoOil
    /\ world_map = NoMap
    /\ oil_map = NoMap
    /\ exported = NoExport
    /\ cache_order = <<>>
    /\ macro_order = <<>>
    /\ requests = {}
    /\ FetchOff
    /\ ChartOff
    /\ oil_seen = {}
    /\ CacheOff
    /\ LetterOff

Next ==
    \/ Rerun
    \/ TabMap
    \/ MacroBegin
    \/ MacroFetchStep
    \/ MacroStore
    \/ Interrupt
    \/ MacroDisplay
    \/ TabRates
    \/ TabFxOil
    \/ TabMarkets
    \/ Return

Spec == Init /\ [][Next]_vars

\* the dashboard with the Oil Price tab watched
NextOil ==
    \/ Rerun
    \/ TabMap
    \/ MacroBegin
    \/ MacroFetchStep
    \/ MacroStore
    \/ Interrupt
    \/ MacroDisplay
    \/ TabRates
    \/ TabFxOilSeen
    \/ TabMarkets
    \/ Return

InitOil ==
    /\ Init
    /\ world = "mixed"

SpecOil == InitOil /\ [][NextOil]_vars

-----------------------------------------------------------------------------
(* The dashboard with the requests of the macro fetch loop seen on the     *)
(* network: fetch_weo_series sends its request and the run waits inside    *)
(* requests.get until the answer, or the failure, is there.                *)

\* the request of the pass the loop is on
LoopRequest ==
    LET task == weo_tasks[(step % Len(weo_tasks)) + 1]
        country == sel_countries[(step \div Len(weo_tasks)) + 1]
    IN [fn |-> "fetch_weo_series", a |-> task.weo_code, b |-> GetWeo(COUNTRIES[country])]

\* a request that stays on the network after its answer was read
AnsweredNever(flight, req) == flight

\* requests.get returns or raises: the request is no longer on the network
Answered(flight, req) == flight \ {req}

\* fetch_weo_series is called: its request leaves, the run waits for the answer
FetchIssue ==
    /\ pc = "fetch"
    /\ step < n_total
    /\ Configured(LoopRequest.b)
    /\ in_flight' = in_flight \cup {LoopRequest}
    /\ pc' = "await"
    /\ UNCHANGED <<world, session, inputs, loop, shown, requests, fetchVars, chartVars,
                   history, cacheVars, letterVars>>

\* the answer is there: the pass of the loop goes on with it
FetchComplete ==
    /\ FetchStep(COUNTRIES, "await")
    /\ in_flight' = Answered(in_flight, LoopRequest)

NextFlight ==
    \/ Rerun
    \/ TabMap
    \/ MacroBegin
    \/ FetchIssue
    \/ FetchComplete
    \/ MacroStore
    \/ Interrupt
    \/ MacroDisplay
    \/ TabRates
    \/ TabFxOil
    \/ TabMarkets
    \/ Return

SpecFlight == Init /\ [][NextFlight]_vars

-----------------------------------------------------------------------------
(* Specification of the macro fetch loop on its own, the country           *)
(* descriptors being an input: the loop reads them with .get("weo"), so    *)
(* that a descriptor may come without a code (the catalog as shipped gives *)
(* every country one).  The run starts where the fetch starts, goes        *)
(* through the loop and draws the indicator tabs.                          *)

\* a descriptor with no provider code: {}
NoCodeDescriptor == [k \in {} |-> ""]

\* the catalogs offered: each selectable country with its code or without
Catalogs ==
    {cat \in [DOMAIN COUNTRIES -> {COUNTRIES[c] : c \in DOMAIN COUNTRIES}
                                     \cup {NoCodeDescriptor}] :
        \A c \in DOMAIN COUNTRIES :
           /\ cat[c] \in {COUNTRIES[c], NoCodeDescriptor}
           /\ c \notin SelectableCountries => cat[c] = COUNTRIES[c]}

InitCatalog ==
    /\ pc = "fetch"
    /\ world \in Worlds
    /\ fcall \in [fn : {"main"}, catalog : Catalogs]
    /\ fret = NoRet
    /\ fpc = "off"
    /\ compare_mode \in BOOLEAN
    /\ sel_countries \in Selections(compare_mode) \ {<<>>}
    /\ start_yr \in year_opts
    /\ end_yr \in {y \in year_opts : start_yr < y}
    /\ include_forecast \in BOOLEAN
    /\ fetch_btn = TRUE
    /\ macro_key = fetch_key
    /\ macro_cache = <<>>
    /\ macro_order = <<>>
    /\ cache = <<>>
    /\ cache_order = <<>>
    /\ cd = <<>>
    /\ step = 0
    /\ charts = <<>>
    /\ messages = <<>>
    /\ oil = NoOil
    /\ world_map = NoMap
    /\ oil_map = NoMap
    /\ exported = NoExport
    /\ requests = {}
    /\ ChartOff
    /\ oil_seen = {}
    /\ CacheOff
    /\ LetterOff

\* one pass of the inner loop on the catalog handed in
CatalogFetchStep ==
    /\ fcall.fn = "main"
    /\ FetchStep(fcall.catalog, "fetch")
    /\ UNCHANGED netVars

NextCatalog ==
    \/ CatalogFetchStep
    \/ MacroStore
    \/ MacroDisplay

SpecCatalog == InitCatalog /\ [][NextCatalog]_vars

------------------------------------------------------------------------------
(* Specification of the Data & Download expander: the indicator tabs drawn *)
(* from a dataset held in st.session_state, whose values have decimals     *)
(* beyond the third.                                                       *)

\* entries as the fetch loop stores them for the years from this_year - 1 to
\* this_year + 1, the values counted in units of 10^-5; none is half-way
\* between two thousandths
ExportEntries ==
    {[hist |-> <<Point(ThisYear - 1, 123444), Point(ThisYear, -123456)>>,
      fcast |-> <<Point(ThisYear + 1, 200000)>>, last_act |-> ThisYear],
     [hist |-> <<Point(ThisYear - 1, 1234567890), Point(ThisYear, 99996)>>,
      fcast |-> EmptySeries, last_act |-> ThisYear],
     EmptyEntry(ThisYear - 1),
     [hist |-> <<Point(ThisYear - 1, -40)>>,
      fcast |-> <<Point(ThisYear, 1000), Point(ThisYear + 1, 123456)>>,
      last_act |-> ThisYear - 1]}

\* the dicts of one country: every indicator of weo_tasks with an entry
CountryDicts ==
    {d \in [{weo_tasks[i].key : i \in DOMAIN weo_tasks} -> ExportEntries] :
        /\ d["gdp"].fcast = EmptySeries
        /\ d["unemp"].hist \in {EmptySeries, <<Point(ThisYear - 1, -40)>>}}

InitExport ==
    /\ pc = "display"
    /\ world \in {"mixed"}
    /\ compare_mode \in BOOLEAN
    /\ sel_countries \in Selections(compare_mode) \ {<<>>}
    /\ start_yr = ThisYear - 1
    /\ end_yr = ThisYear + 1
    /\ include_forecast = TRUE
    /\ fetch_btn = FALSE
    /\ macro_key = fetch_key
    /\ macro_order \in {o \in Selections(TRUE) : Range(o) = Range(sel_countries)}
    /\ macro_cache \in [Range(sel_countries) -> CountryDicts]
    /\ cache = <<>>
    /\ cache_order = <<>>
    /\ cd = <<>>
    /\ step = 0
    /\ charts = <<>>
    /\ messages = <<>>
    /\ oil = NoOil
    /\ world_map = NoMap
    /\ oil_map = NoMap
    /\ exported = NoExport
    /\ requests = {}
    /\ FetchOff
    /\ ChartOff
    /\ oil_seen = {}
    /\ CacheOff
    /\ LetterOff

NextExport == MacroDisplay

SpecExport == InitExport /\ [][NextExport]_vars

-----------------------------------------------------------------------------
(* Specification of the fetcher layer: one call of one fetcher on one      *)
(* response.                                                               *)

FetchCalls ==
    [fn : {"fetch_weo_series"}, resp : WeoSeriesResponses]
    \cup [fn : {"fetch_weo_world"}, resp : WeoWorldResponses]
    \cup [fn : {"fetch_fred_annual"}, resp : FredResponses]
    \cup [fn : {"fetch_yahoo_annual"}, resp : YahooResponses]

InitFetch ==
    /\ fcall \in FetchCalls
    /\ fret = NoRet
    /\ fpc = "call"
    /\ MainOff
    /\ ChartOff
    /\ oil_seen = {}
    /\ CacheOff
    /\ LetterOff

CallFetchWeoSeries ==
    /\ fpc = "call"
    /\ fcall.fn = "fetch_weo_series"
    /\ fret' = fetch_weo_series(fcall.resp)
    /\ fpc' = "returned"
    /\ UNCHANGED <<fcall, mainVars, chartVars, history, cacheVars, netVars, letterVars>>

CallFetchWeoWorld ==
    /\ fpc = "call"
    /\ fcall.fn = "fetch_weo_world"
    /\ fret' = fetch_weo_world(fcall.resp)
    /\ fpc' = "returned"
    /\ UNCHANGED <<fcall, mainVars, chartVars, history, cacheVars, netVars, letterVars>>

CallFetchFredAnnual ==
    /\ fpc = "call"
    /\ fcall.fn = "fetch_fred_annual"
    /\ fret' = fetch_fred_annual(fcall.resp)
    /\ fpc' = "returned"
    /\ UNCHANGED <<fcall, mainVars, chartVars, history, cacheVars, netVars, letterVars>>

CallFetchYahooAnnual ==
    /\ fpc = "call"
    /\ fcall.fn = "fetch_yahoo_annual"
    /\ fret' = fetch_yahoo_annual(fcall.resp)
    /\ fpc' = "returned"
    /\ UNCHANGED <<fcall, mainVars, chartVars, history, cacheVars, netVars, letterVars>>

NextFetch ==
    \/ CallFetchWeoSeries
    \/ CallFetchWeoWorld
    \/ CallFetchFredAnnual
    \/ CallFetchYahooAnnual

SpecFetch == InitFetch /\ [][NextFetch]_vars

------------------------------------------------------------------------------
(* Specification of the helpers on their own: one call of clip_years, or   *)
(* one reading of the World Map year slider on a pair of sidebar years.    *)

\* the years of the series handed to clip_years and of its bounds
ClipYears == (ThisYear - 2)..(ThisYear + 1)

\* the series handed to clip_years: as the fetchers return them, the years
\* strictly ascending; a value may be NaN
ClipSeries ==
    UNION {{s \in [1..n -> [y : ClipYears, v : {0, 7}, nan : BOOLEAN]] :
               /\ \A i \in 1..n : s[i].nan => s[i].v = 0
               /\ \A i, j \in 1..n : i < j => s[i].y < s[j].y}
           : n \in 0..Cardinality(ClipYears)}

\* the years of the two selectboxes of the sidebar: range(1980, this_year + 7)
SidebarYears == 1980..(ThisYear + 6)

HelperCalls ==
    [fn : {"clip_years"}, s : ClipSeries, start : ClipYears, end : ClipYears]
    \cup {c \in [fn : {"map_slider"}, start_yr : SidebarYears, end_yr : SidebarYears] :
             c.start_yr < c.end_yr}

InitHelpers ==
    /\ fcall \in HelperCalls
    /\ fret = NoRet
    /\ fpc = "call"
    /\ MainOff
    /\ ChartOff
    /\ oil_seen = {}
    /\ CacheOff
    /\ LetterOff

CallClipYears ==
    /\ fpc = "call"
    /\ fcall.fn = "clip_years"
    /\ fret' = [raised |-> FALSE, s |-> clip_years(fcall.s, fcall.start, fcall.end)]
    /\ fpc' = "returned"
    /\ UNCHANGED <<fcall, mainVars, chartVars, history, cacheVars, netVars, letterVars>>

\* st.slider("Year", min_value=max(start_yr, 1980), max_value=end_yr,
\* value=min(this_year, end_yr)): it raises when the value is outside the
\* bounds
CallMapSlider ==
    /\ fpc = "call"
    /\ fcall.fn = "map_slider"
    /\ fret' = [raised |-> \/ SliderValue(fcall.end_yr) < SliderMin(fcall.start_yr)
                           \/ SliderValue(fcall.end_yr) > fcall.end_yr,
                min_value |-> SliderMin(fcall.start_yr),
                max_value |-> fcall.end_yr,
                value |-> SliderValue(fcall.end_yr)]
    /\ fpc' = "returned"
    /\ UNCHANGED <<fcall, mainVars, chartVars, history, cacheVars, netVars, letterVars>>

NextHelpers ==
    \/ CallClipYears
    \/ CallMapSlider

SpecHelpers == InitHelpers /\ [][NextHelpers]_vars

-----------------------------------------------------------------------------
(* Specification of the chart builder: one call of build_line_chart on     *)
(* arbitrary traces.                                                       *)

ChartUnitsOffered == {"%", "bps", "rate"}

SampleHist == <<Point(ThisYear - 1, 3)>>
SampleFcast == <<Point(ThisYear, 4)>>

TraceNames == <<"A", "B", "C", "D", "E", "F">>

\* a trace dict without its label and colour: with or without the key fcast
TraceShapes ==
    [hist : {EmptySeries, SampleHist}, has_fcast : {TRUE},
     fcast : {EmptySeries, SampleFcast}, unit : ChartUnitsOffered]
    \cup [hist : {EmptySeries, SampleHist}, has_fcast : {FALSE},
          fcast : {EmptySeries}, unit : ChartUnitsOffered]

\* the i-th trace is labelled TraceNames[i] and coloured PALETTE[i - 1]
TraceLists ==
    {[i \in DOMAIN shapes |->
         [label |-> Label(TraceNames[i], ""), hist |-> shapes[i].hist,
          has_fcast |-> shapes[i].has_fcast, fcast |-> shapes[i].fcast,
          unit |-> shapes[i].unit, color |-> i - 1]]
        : shapes \in SeqsUpTo(TraceShapes, MaxTraces)}

InitChart ==
    /\ chart_in \in [traces : TraceLists, hline_zero : BOOLEAN, hline_2 : BOOLEAN]
    /\ chart_out = [built |-> FALSE]
    /\ MainOff
    /\ FetchOff
    /\ oil_seen = {}
    /\ CacheOff
    /\ LetterOff

BuildLineChart ==
    /\ ~chart_out.built
    /\ chart_out' = [built |-> TRUE,
                     fig |-> build_line_chart(chart_in.traces, Label("", ""),
                                              chart_in.hline_zero, chart_in.hline_2)]
    /\ UNCHANGED <<chart_in, mainVars, fetchVars, history, cacheVars, netVars, letterVars>>

NextChart ==
    \/ BuildLineChart

SpecChart == InitChart /\ [][NextChart]_vars

-----------------------------------------------------------------------------
(* Specification of the fetchers under their decorator                     *)
(* @st.cache_data(ttl=...): calls come one after the other while time      *)
(* passes.  The cache holds, per function and arguments, the value the     *)
(* function returned and when; an entry is served for ttl seconds after    *)
(* it was written.  The body of a fetcher sends its one requests.get.      *)

\* ttl=86_400 of fetch_weo_series and fetch_weo_world
TTL_WEO == 86400

\* ttl=3_600 of fetch_fred_annual and fetch_yahoo_annual
TTL_FRED == 3600

\* the largest number of calls of one behaviour
MaxCalls == 4

TTL(fn) == IF fn \in {"fetch_weo_series", "fetch_weo_world"} THEN TTL_WEO ELSE TTL_FRED

\* the instants at which the clock is read: around the expiry of the entries
\* written at 0, at TTL_FRED and at TTL_WEO
ClockPoints ==
    {0, TTL_FRED - 1, TTL_FRED, TTL_WEO - 1, TTL_WEO,
     TTL_WEO + TTL_FRED - 1, TTL_WEO + TTL_FRED}

\* the calls made: a function with its arguments
CacheCalls ==
    {[fn |-> "fetch_weo_series", args |-> <<"PCPIPCH", "USA">>],
     [fn |-> "fetch_fred_annual", args |-> <<"FEDFUNDS">>],
     [fn |-> "fetch_fred_annual", args |-> <<"GS10">>]}

\* what the provider may answer when it is asked
Answers(fn) ==
    IF fn = "fetch_weo_series" THEN {WeoSteady, WeoDown} ELSE {FredSteady, FredDown}

\* the body of the function run on the provider's answer
RunBody(fn, resp) ==
    IF fn = "fetch_weo_series" THEN fetch_weo_series(resp) ELSE fetch_fred_annual(resp)

\* the try block of the function left through its except
BodyFailed(fn, resp) ==
    IF fn = "fetch_weo_series" THEN WeoSeriesFailure(resp) # "none"
    ELSE FredFailure(resp) # "none"

\* a cache whose entries never expire
FreshForever(at, t, ttl) == TRUE

\* the entry written at instant at is still served at instant t
Fresh(at, t, ttl) == t - at < ttl

\* a cache that keeps only the results of the calls that did not fail
CacheWriteUnlessFailed(dc, k, value, failed, t) ==
    IF failed THEN [x \in (DOMAIN dc) \ {k} |-> dc[x]]
    ELSE Put(dc, k, [value |-> value, at |-> t])

\* the decorator stores what the function returned, whatever it is
CacheWrite(dc, k, value, failed, t) == Put(dc, k, [value |-> value, at |-> t])

\* a body that asks the provider a second time when the first request fails
AttemptsWithRetry(failed) == IF failed THEN 2 ELSE 1

\* the requests.get calls of one run of a fetcher's body: the one of the try
\* block, failed or not
Attempts(failed) == 1

NoCall == [n |-> 0, key |-> [fn |-> "none", args |-> <<>>], at |-> 0, hit |-> FALSE,
           ret |-> NoRet]

InitCache ==
    /\ now = 0
    /\ data_cache = <<>>
    /\ http = [k \in CacheCalls |-> [n |-> 0, calls |-> 0, at |-> 0, failed |-> FALSE]]
    /\ last_call = NoCall
    /\ in_flight = {}
    /\ MainOff
    /\ FetchOff
    /\ ChartOff
    /\ oil_seen = {}
    /\ LetterOff

\* one call of a decorated fetcher: served from the cache when an entry for
\* the same function and arguments is still fresh; if not the body runs, sends
\* its request, and what it returns is stored
CachedCall ==
    /\ last_call.n < MaxCalls
    /\ \E k \in CacheCalls :
          IF k \in DOMAIN data_cache /\ Fresh(data_cache[k].at, now, TTL(k.fn))
          THEN /\ last_call' = [n |-> last_call.n + 1, key |-> k, at |-> now,
                                hit |-> TRUE, ret |-> data_cache[k].value]
               /\ http' = [http EXCEPT ![k].calls = @ + 1]
               /\ UNCHANGED data_cache
          ELSE \E resp \in Answers(k.fn) :
                  LET ret == RunBody(k.fn, resp)
                      failed == BodyFailed(k.fn, resp)
                  IN /\ data_cache' = CacheWrite(data_cache, k, ret, failed, now)
                     /\ http' = [http EXCEPT ![k] =
                                    [n |-> @.n + Attempts(failed), calls |-> @.calls + 1,
                                     at |-> now, failed |-> failed]]
                     /\ last_call' = [n |-> last_call.n + 1, key |-> k, at |-> now,
                                      hit |-> FALSE, ret |-> ret]
    /\ UNCHANGED <<now, mainVars, fetchVars, chartVars, history, netVars, letterVars>>

\* time passes between two calls
TimePasses ==
    /\ \E t \in ClockPoints : t > now /\ now' = t
    /\ UNCHANGED <<data_cache, http, last_call, mainVars, fetchVars, chartVars, history,
                   netVars, letterVars>>

NextCache ==
    \/ CachedCall
    \/ TimePasses

SpecCache == InitCache /\ [][NextCache]_vars

-----------------------------------------------------------------------------
(* Claims about the fetchers.                                              *)

Returned(fn) == fpc = "returned" /\ fcall.fn = fn

\* the request, the HTTP status or the reading of the response as a whole
\* failed (stated on the response, fetcher by fetcher)
ResponseFailed ==
    \/ fcall.resp.status # "ok"
    \/ /\ fcall.fn \in {"fetch_weo_series", "fetch_weo_world"}
       /\ (fcall.resp.la.t = "text" \/ fcall.resp.vshape = "list")
    \/ fcall.fn = "fetch_fred_annual" /\ fcall.resp.csv # "two"
    \/ /\ fcall.fn = "fetch_yahoo_annual"
       /\ (fcall.resp.shape # "chart" \/ Len(fcall.resp.ts) # Len(fcall.resp.closes))

\* parsing one entry of the response fails: a value that is no number, or a
\* number under a year key that is no year (float() or pd.Period()/int()
\* raises); for FRED, a CSV cell that cannot be read
EntryUnparsable(e) ==
    \/ e.val.t = "text"
    \/ e.k.form = "bad" /\ (e.val.t = "str" \/ (e.val.t = "num" /\ e.val.n # 0))

SomeEntryFailed ==
    /\ fcall.resp.status = "ok"
    /\ \/ /\ fcall.fn = "fetch_weo_series"
          /\ \E i \in DOMAIN fcall.resp.items : EntryUnparsable(fcall.resp.items[i])
       \/ /\ fcall.fn = "fetch_weo_world"
          /\ \E i \in DOMAIN fcall.resp.rows :
                \/ ~fcall.resp.rows[i].isdict
                \/ \E j \in DOMAIN fcall.resp.rows[i].items :
                      EntryUnparsable(fcall.resp.rows[i].items[j])
       \/ /\ fcall.fn = "fetch_fred_annual"
          /\ \E i \in DOMAIN fcall.resp.rows :
                ~fcall.resp.rows[i].d.ok \/ ~fcall.resp.rows[i].v.ok

ResultEmpty ==
    IF fcall.fn = "fetch_weo_world" THEN FrameEmpty(fret.df) ELSE fret.s = EmptySeries

EmptyWithDefault ==
    /\ ResultEmpty
    /\ fcall.fn \in {"fetch_weo_series", "fetch_weo_world"} => fret.la = ThisYear - 1

StrictlyAscending(s) == \A i, j \in DOMAIN s : i < j => s[i].y < s[j].y

\* C17: the series returned by fetch_weo_series, fetch_fred_annual and
\* fetch_yahoo_annual has its years in strictly ascending order, no year
\* twice, whatever the order and the repetitions of the provider's entries.
C17_YearsStrictlyAscending ==
    (fpc = "returned" /\ fcall.fn # "fetch_weo_world") => StrictlyAscending(fret.s)

\* C17 witness: a WEO response that lists a later year before an earlier one
\* gave the series of the two years, the earlier one first
C17_Witness ==
    /\ fpc = "returned"
    /\ fcall.fn = "fetch_weo_series"
    /\ Len(fcall.resp.items) = 2
    /\ fcall.resp.items[1].k.y > fcall.resp.items[2].k.y
    /\ Len(fret.s) = 2
    /\ fret.s[1].y = fcall.resp.items[2].k.y

-----------------------------------------------------------------------------
(* Claims about the assembled series of the Macro tab.                     *)

\* the (hist, fcast, last_act) entries of a dict country -> key -> entry
EntriesOf(d) == UNION {{d[c][k] : k \in DOMAIN d[c]} : c \in DOMAIN d}

\* every entry the program holds: stored in the session or being built
HeldEntries == EntriesOf(macro_cache) \cup EntriesOf(cache) \cup Range(cd)

\* what the provider answers, in this run, for a country and an indicator key
ProviderAnswer(country, key) ==
    LET task == CHOOSE x \in Range(weo_tasks) : x.key = key
    IN WeoSeriesFetched[world][task.weo_code][COUNTRIES[country].weo]

\* the country whose indicators the loop is on
LoopCountry == sel_countries[(step \div Len(weo_tasks)) + 1]

\* C2: every year of an assembled forecast series is strictly after the
\* provider's last-actual year and every year of the historical series is at
\* or before it; the entry carries that last-actual year.
C2_ForecastAfterLastActual ==
    /\ \A e \in HeldEntries :
          /\ \A i \in DOMAIN e.fcast : e.fcast[i].y > e.last_act
          /\ \A i \in DOMAIN e.hist : e.hist[i].y <= e.last_act
    /\ \A c \in DOMAIN cache : \A k \in DOMAIN cache[c] :
          LET e == cache[c][k]
          IN (e.hist # EmptySeries \/ e.fcast # EmptySeries)
                => e.last_act = ProviderAnswer(c, k).la
    /\ \A k \in DOMAIN cd :
          (cd[k].hist # EmptySeries \/ cd[k].fcast # EmptySeries)
             => cd[k].last_act = ProviderAnswer(LoopCountry, k).la

\* C2 witness: a stored entry with both a historical and a forecast part
C2_Witness ==
    \E e \in EntriesOf(macro_cache) : e.hist # EmptySeries /\ e.fcast # EmptySeries

\* the positions of a run at which the indicator tabs have been drawn
AfterDisplay == {"tab_rates", "tab_fx", "tab_mkt", "done"}

\* the titles of the charts drawn from the WEO entries
MacroTitles == {ind_meta[i].label : i \in DOMAIN ind_meta}

\* C3: forecasts come from the WEO provider only and only on opt-in: with
\* include_forecast false no entry assembled by the run carries a forecast
\* and nothing the run draws, chart or map, is a forecast; the FRED and
\* Yahoo charts never carry one.
C3_NoForecastUnlessOptedIn ==
    /\ ~include_forecast =>
          /\ \A e \in EntriesOf(cache) \cup Range(cd) : e.fcast = EmptySeries
          /\ pc \in AfterDisplay =>
                \A i \in DOMAIN charts : \A j \in DOMAIN charts[i].data :
                   ~charts[i].data[j].forecast
          /\ (world_map.shown /\ ~world_map.fig.empty) => ~world_map.fig.forecast
    /\ \A i \in DOMAIN charts :
          charts[i].title.text \notin MacroTitles =>
             \A j \in DOMAIN charts[i].data : ~charts[i].data[j].forecast

\* C5: a series whose points are all forecast is drawn as a forecast trace
\* that keeps its legend entry: a forecast trace with no historical trace of
\* the same label in its chart shows its legend entry.
C5_ForecastOnlyKeepsLegend ==
    \A i \in DOMAIN charts :
       LET data == charts[i].data
       IN \A j \in DOMAIN data :
             (/\ data[j].forecast
              /\ ~\E h \in DOMAIN data : ~data[h].forecast /\ data[h].label = data[j].label)
                => data[j].showlegend

\* the titles of the charts whose call passes hline_zero=True
ZeroLineTitles ==
    {ind_meta[i].label : i \in {n \in DOMAIN ind_meta : ind_meta[n].hl0}}
       \cup {"Policy & Interbank Rates", "10Y Government Bond Yields",
             "Equity Index Returns (YoY %)"}

\* C7 as stated: every chart with a series in "%" has the zero line.
C7_ZeroLineWheneverPercent ==
    \A i \in DOMAIN charts :
       (\E j \in DOMAIN charts[i].data : charts[i].data[j].unit = "%")
          => 0 \in charts[i].hlines

\* C7: the zero reference line is drawn exactly on the charts whose call asks
\* for it with hline_zero=True, whatever the units: the Unemployment chart,
\* in "%", is built without it.
C7_ZeroLineAsRequested ==
    \A i \in DOMAIN charts :
       /\ (0 \in charts[i].hlines) <=> (charts[i].title.text \in ZeroLineTitles)
       /\ charts[i].title.text = "Unemployment Rate (%)" => 0 \notin charts[i].hlines

\* C7 witness: the Unemployment chart drawn with percent series and no zero
\* line, next to the CPI chart with one
C7_Witness ==
    /\ \E i \in DOMAIN charts :
          /\ charts[i].title.text = "Unemployment Rate (%)"
          /\ \E j \in DOMAIN charts[i].data : charts[i].data[j].unit = "%"
          /\ 0 \notin charts[i].hlines
    /\ \E i \in DOMAIN charts :
          /\ charts[i].title.text = "CPI Inflation (YoY %)"
          /\ 0 \in charts[i].hlines

\* the indicators of country c for which the provider gave nothing
NothingFor(c, k) == ProviderAnswer(c, k).s = EmptySeries

-----------------------------------------------------------------------------
(* Claims about the chart builder.                                         *)

\* the positions of the traces with a non-empty historical or forecast part
DrawnTraces(traces) ==
    {i \in DOMAIN traces :
        traces[i].hist # EmptySeries
           \/ (traces[i].has_fcast /\ traces[i].fcast # EmptySeries)}

\* C4: the units are taken in first-seen order over the traces with a
\* non-empty part; one unit gives a single axis, two or more give two axes,
\* the series of the first-seen unit on the primary axis and every other
\* series, those of a third unit included, on the secondary axis.
C4_AxisAssignment ==
    chart_out.built =>
       LET traces == chart_in.traces
           fig == chart_out.fig
           drawn == DrawnTraces(traces)
           units == {traces[i].unit : i \in drawn}
       IN IF drawn = {}
          THEN ~fig.dual /\ fig.data = <<>>
          ELSE LET u1 == traces[SetMin(drawn)].unit
                   others == {i \in drawn : traces[i].unit # u1}
               IN /\ fig.yaxis = u1
                  /\ fig.dual = (Cardinality(units) >= 2)
                  /\ Cardinality(units) = 1 => fig.yaxis2 = ""
                  /\ Cardinality(units) >= 2 => fig.yaxis2 = traces[SetMin(others)].unit
                  /\ \A j \in DOMAIN fig.data :
                        fig.data[j].secondary_y = (fig.data[j].unit # u1)
                  /\ \A i \in drawn : \E j \in DOMAIN fig.data :
                        fig.data[j].label = traces[i].label

\* C4 witness: a chart built from series of three units, the third unit's
\* series on the secondary axis
C4_Witness ==
    /\ chart_out.built
    /\ Cardinality({chart_out.fig.data[j].unit : j \in DOMAIN chart_out.fig.data}) = 3
    /\ \E j \in DOMAIN chart_out.fig.data :
          /\ chart_out.fig.data[j].unit \notin {chart_out.fig.yaxis, chart_out.fig.yaxis2}
          /\ chart_out.fig.data[j].secondary_y

\* C6: each part of a series that has data gives exactly one trace with one
\* legend entry, solid for the historical part and dotted for the forecast
\* part; an empty part gives no trace and no legend entry.
C6_OneLegendEntryPerStyle ==
    chart_out.built =>
       \A i \in DOMAIN chart_in.traces :
          LET t == chart_in.traces[i]
              data == chart_out.fig.data
              drawn(dash) == {j \in DOMAIN data : data[j].label = t.label /\ data[j].dash = dash}
              legend(dash) == {j \in drawn(dash) : data[j].showlegend}
              n(s) == IF s # EmptySeries THEN 1 ELSE 0
          IN /\ Cardinality(drawn("solid")) = n(t.hist)
             /\ Cardinality(legend("solid")) = n(t.hist)
             /\ Cardinality(drawn("dot")) = n(GetFcast(t))
             /\ Cardinality(legend("dot")) = n(GetFcast(t))

-----------------------------------------------------------------------------
(* Claims about the Oil Price tab.                                         *)

\* the fetcher calls whose arguments name a country
CountryRequests == {r \in requests : r.b # ""}

\* the fetcher calls for the two crude oil benchmarks
OilRequests == {r \in requests : r.a \in {"DCOILBRENTEU", "DCOILWTICO"}}

\* C10: the Brent and WTI series are fetched from FRED with no country
\* argument, the only calls that name a country being the WEO calls of the
\* Macro tab, and a run draws the same oil series as any earlier run over
\* the same years with France selected alone, whatever the countries
\* selected now.
C10_OilSameForEveryCountry ==
    /\ \A r \in OilRequests : r.fn = "fetch_fred_annual" /\ r.b = ""
    /\ \A r \in CountryRequests :
          r.fn = "fetch_weo_series" /\ r.a \in {weo_tasks[i].weo_code : i \in DOMAIN weo_tasks}
    /\ pc \in {"tab_mkt", "done"} =>
          /\ Cardinality(OilRequests) = 2
          /\ \A seen \in oil_seen :
                (seen.start_yr = start_yr /\ seen.end_yr = end_yr) => oil = seen.oil

\* C10 witness: with two countries selected, the United States first, the
\* tab drew the non-empty oil series that an earlier run with France alone
\* drew over the same years
C10_Witness ==
    /\ pc = "tab_mkt"
    /\ oil.brent # EmptySeries
    /\ sel_countries = <<"United States", "France">>
    /\ \E seen \in oil_seen :
          /\ seen.start_yr = start_yr /\ seen.end_yr = end_yr
          /\ seen.oil = oil

-----------------------------------------------------------------------------
(* Claims about the macro fetch loop and the inputs of a run.              *)

\* the descriptor of country c in the catalog handed to the loop has no code
HasNoCode(c) == "weo" \notin DOMAIN fcall.catalog[c]

\* C11: a country whose descriptor has no provider code is skipped: the run
\* goes through the loop and the tabs without raising, every fetch made is
\* for the code of a selected country that has one, the country's dict
\* stays without any indicator entry, and the indicator tabs show for it
\* the "No data" message and no chart, no trace and no export column.
C11_UnconfiguredIsSkipped ==
    /\ pc \in {"fetch", "display", "tab_rates"}
    /\ \A r \in requests :
          /\ r.fn = "fetch_weo_series"
          /\ \E c \in Range(sel_countries) :
                ~HasNoCode(c) /\ fcall.catalog[c].weo = r.b
    /\ (pc = "fetch" /\ step < n_total /\ HasNoCode(LoopCountry)) => cd = <<>>
    /\ \A c \in DOMAIN cache : HasNoCode(c) => cache[c] = <<>>
    /\ \A c \in DOMAIN macro_cache : HasNoCode(c) => macro_cache[c] = <<>>
    /\ pc = "tab_rates" =>
          /\ \A i \in DOMAIN charts : \A j \in DOMAIN charts[i].data :
                ~HasNoCode(charts[i].data[j].label.country)
          /\ exported.shown =>
                \A j \in DOMAIN exported.columns : ~HasNoCode(exported.columns[j].country)
          /\ (~compare_mode /\ HasNoCode(sel_countries[1])) =>
                /\ charts = <<>>
                /\ messages = [i \in DOMAIN ind_meta |-> "No data - click Fetch Data."]

\* C11 witness: a comparison of France, whose descriptor has no code, with
\* the United States, which have one, was fetched and drawn: the requests
\* were made for USA alone and the charts hold the United States alone
C11_Witness ==
    /\ pc = "tab_rates"
    /\ compare_mode
    /\ sel_countries = <<"France", "United States">>
    /\ HasNoCode("France") /\ ~HasNoCode("United States")
    /\ macro_cache["France"] = <<>>
    /\ {r.b : r \in requests} = {"USA"}
    /\ charts # <<>>

\* the run under way was given an empty selection or a start year that is
\* not before the end year
CallerMisuse == pc # "idle" /\ (sel_countries = <<>> \/ start_yr >= end_yr)

\* C12: a run whose inputs are an empty country selection or a start year
\* at or after the end year shows one message (st.info for the selection,
\* st.error for the years) and returns there: it draws nothing, makes no
\* fetcher call, and neither the step that reads the inputs nor the return
\* changes the session's macro_key and macro_cache.
C12_MisuseEndsTheRun ==
    [][ /\ CallerMisuse' =>
              /\ pc' = "returned"
              /\ messages' = <<IF sel_countries' = <<>>
                               THEN "Select at least one country."
                               ELSE "Start year must be before end year.">>
              /\ requests' = {}
              /\ charts' = <<>> /\ ~world_map'.shown /\ ~exported'.shown
              /\ cache' = <<>> /\ step' = 0
              /\ UNCHANGED session
        /\ CallerMisuse => (pc' = "idle" /\ UNCHANGED session) ]_vars

\* C12 witness: a session that holds the data of an earlier fetch is given a
\* start year that is not before the end year, and the run has returned on
\* the message with the session as it was
C12_Witness ==
    /\ pc = "returned"
    /\ sel_countries # <<>> /\ start_yr >= end_yr
    /\ messages = <<"Start year must be before end year.">>
    /\ macro_key # None /\ macro_cache # <<>>
    /\ macro_key[2] < macro_key[3]
    /\ requests = {}

-----------------------------------------------------------------------------
(* Claims about the fetchers under st.cache_data.                          *)

\* the step is a call of a decorated fetcher
IsCall == last_call'.n = last_call.n + 1

\* series or frame, the result holds nothing
EmptyResult(ret) == ~ret.raised /\ ret.s = EmptySeries

\* C13: a call with the function and arguments of an earlier call whose
\* cache entry is less than ttl seconds old (86400 for the WEO fetchers, 3600
\* for FRED and Yahoo) sends no HTTP request, returns the value of that entry
\* and leaves the entry as it is; once ttl seconds have elapsed, as for a
\* first call, a request is sent and what comes back is stored anew.
C13_RepeatWithinTtlIsCached ==
    [][ IsCall =>
          LET k == last_call'.key
              held == k \in DOMAIN data_cache
              ttl == IF k.fn = "fetch_weo_series" THEN 86400 ELSE 3600
          IN /\ (held /\ now - data_cache[k].at < ttl) =>
                   /\ http'[k].n = http[k].n
                   /\ last_call'.ret = data_cache[k].value
                   /\ data_cache' = data_cache
             /\ (~held \/ now - data_cache[k].at >= ttl) =>
                   /\ http'[k].n > http[k].n
                   /\ data_cache'[k] = [value |-> last_call'.ret, at |-> now]
             /\ \A x \in CacheCalls \ {k} : http'[x] = http[x] ]_vars

\* C13 witness: FEDFUNDS was called three times, at 0, one second before the
\* hour and at the hour: two requests were sent, the last one by the latest
\* call, on the expired entry
C13_Witness ==
    LET k == [fn |-> "fetch_fred_annual", args |-> <<"FEDFUNDS">>]
    IN /\ last_call.key = k /\ ~last_call.hit /\ last_call.at = TTL_FRED
       /\ http[k].calls = 3 /\ http[k].n = 2

\* C14: after a call whose request failed, every call with the same function
\* and arguments made less than ttl seconds later sends no request and
\* returns the empty result; the first call made at or after ttl seconds
\* sends a request again.
C14_FailureIsCached ==
    [][ IsCall =>
          LET k == last_call'.key
              ttl == IF k.fn = "fetch_weo_series" THEN 86400 ELSE 3600
          IN (http[k].n > 0 /\ http[k].failed) =>
                IF now - http[k].at < ttl
                THEN /\ http'[k].n = http[k].n
                     /\ EmptyResult(last_call'.ret)
                ELSE http'[k].n > http[k].n ]_vars

\* C14 witness: a WEO call failed at 0 and the same call, made one second
\* before the day is over, was answered with the empty result and no request
C14_Witness ==
    LET k == [fn |-> "fetch_weo_series", args |-> <<"PCPIPCH", "USA">>]
    IN /\ last_call.key = k /\ last_call.hit /\ last_call.at = TTL_WEO - 1
       /\ http[k].n = 1 /\ http[k].failed /\ http[k].at = 0
       /\ EmptyResult(last_call.ret)

\* C15: a call that is not served from the cache sends exactly one HTTP
\* request, failed or not, and returns at the same instant; when the request
\* failed what it returns is the empty result.  A call served from the cache
\* sends none.
C15_OneRequestPerCall ==
    [][ IsCall =>
          LET k == last_call'.key
              ttl == IF k.fn = "fetch_weo_series" THEN 86400 ELSE 3600
              cached == k \in DOMAIN data_cache /\ now - data_cache[k].at < ttl
          IN /\ now' = now
             /\ http'[k].n = http[k].n + (IF cached THEN 0 ELSE 1)
             /\ (~cached /\ http'[k].failed) => EmptyResult(last_call'.ret) ]_vars

\* C15 witness: the first call for GS10 failed: one request was sent and the
\* call returned the empty series
C15_Witness ==
    LET k == [fn |-> "fetch_fred_annual", args |-> <<"GS10">>]
    IN /\ last_call.key = k /\ ~last_call.hit
       /\ http[k].calls = 1 /\ http[k].n = 1 /\ http[k].failed
       /\ EmptyResult(last_call.ret)

-----------------------------------------------------------------------------
(* Claims about the requests of the macro fetch loop.                      *)

\* the requests of the passes of the loop before pass n
PassedRequests(n) ==
    {[fn |-> "fetch_weo_series",
      a |-> weo_tasks[(s % Len(weo_tasks)) + 1].weo_code,
      b |-> COUNTRIES[sel_countries[(s \div Len(weo_tasks)) + 1]].weo] : s \in 0..(n - 1)}

\* C16: at most one request of the macro fetch loop is on the network at
\* any time: while the run waits it is the request of the pass the loop is
\* on, every request of an earlier pass has been answered, and outside the
\* wait there is none; the passes are made in the order of the countries
\* and, for each country, of the indicators.
C16_OneRequestInFlight ==
    /\ Cardinality(in_flight) <= 1
    /\ pc = "await" =>
          /\ in_flight = {LoopRequest}
          /\ {r \in requests : r.fn = "fetch_weo_series"} = PassedRequests(step)
    /\ pc # "await" => in_flight = {}

\* C16 witness: two countries are being fetched; the three requests of the
\* first country have been answered and the first request of the second
\* country is on the network, alone
C16_Witness ==
    /\ pc = "await"
    /\ Len(sel_countries) = 2
    /\ step = Len(weo_tasks)
    /\ Cardinality({r \in requests : r.fn = "fetch_weo_series"}) = Len(weo_tasks)
    /\ in_flight = {LoopRequest}

\* ---------------------------------------------------------------------
\* the oil world map

\* the codes the catalog configures
CatalogCodes == {GetWeo(COUNTRIES[c]) : c \in DOMAIN COUNTRIES} \ {""}

\* the point of the year in a series
PointOf(s, year) == CHOOSE q \in Range(s) : q.y = year

\* C18, as stated: the oil world map drawn has the code of every configured
\* country of the catalog among its locations, and every location carries
\* the same value.
C18_EveryCodeIsALocation ==
    (oil_map.shown /\ ~oil_map.fig.empty) =>
        /\ \A code \in CatalogCodes : code \in Range(oil_map.fig.locations)
        /\ \A i, j \in DOMAIN oil_map.fig.z : oil_map.fig.z[i] = oil_map.fig.z[j]

\* C18, amended: the oil world map drawn is never the empty figure; its
\* locations are the catalog's codes of exactly three characters and no
\* other (the Euro Area's EURO is not one), each once; there is one value
\* per location, and each is the Brent price of the year picked.
C18_ThreeLetterCodesAtOnePrice ==
    oil_map.shown =>
        /\ ~oil_map.fig.empty
        /\ Range(oil_map.fig.locations) = {code \in CatalogCodes : Len(code) = 3}
        /\ "EURO" \in CatalogCodes /\ "EURO" \notin Range(oil_map.fig.locations)
        /\ Len(oil_map.fig.locations) = Cardinality(Range(oil_map.fig.locations))
        /\ DOMAIN oil_map.fig.z = DOMAIN oil_map.fig.locations
        /\ \A i \in DOMAIN oil_map.fig.z :
              /\ oil_map.fig.z[i].v = PointOf(oil.brent, oil_map.fig.year).v
              /\ oil_map.fig.z[i].nan = PointOf(oil.brent, oil_map.fig.year).nan

\* an oil world map drawn for a year that has a Brent price, with the
\* United States and France as its locations
C18_Witness ==
    /\ oil_map.shown
    /\ ~oil_map.fig.empty
    /\ oil_map.fig.locations = <<"USA", "FRA">>
    /\ ~oil_map.fig.z[1].nan

\* ---------------------------------------------------------------------
\* the Data & Download table

\* the (country, indicator) pairs of the dataset whose series has a point
PairsWithData ==
    {pr \in [country : DOMAIN macro_cache, key : {weo_tasks[i].key : i \in DOMAIN weo_tasks}] :
        /\ pr.key \in DOMAIN macro_cache[pr.country]
        /\ \/ macro_cache[pr.country][pr.key].hist # EmptySeries
           \/ macro_cache[pr.country][pr.key].fcast # EmptySeries}

\* the points of the historical and forecast series of a pair
PairPoints(pr) ==
    Range(macro_cache[pr.country][pr.key].hist)
        \cup Range(macro_cache[pr.country][pr.key].fcast)

\* C19: the table exported (as CSV and as a spreadsheet) reflects the
\* dataset assembled, st.session_state.macro_cache: one column per (country,
\* indicator) that has data and no other, one row per year of any of them,
\* the rows ordered by year descending, and a cell holding a value exactly
\* where the column's series has one for the row's year.
C19_ExportReflectsDataset ==
    exported.shown =>
        LET years == UNION {{p.y : p \in PairPoints(pr)} : pr \in PairsWithData}
        IN /\ Range(exported.columns) = PairsWithData
           /\ Len(exported.columns) = Cardinality(PairsWithData)
           /\ Range(exported.index) = years
           /\ DOMAIN exported.rows = years
           /\ \A i, j \in DOMAIN exported.index :
                 i < j => exported.index[i] > exported.index[j]
           /\ \A y \in years : \A j \in DOMAIN exported.columns :
                 ~exported.rows[y][j].nan <=>
                     \E p \in PairPoints(exported.columns[j]) : p.y = y /\ ~p.nan

\* a table exported with columns of two countries, three rows, and a cell
\* left empty because its column has no value for the year
C19_Witness ==
    /\ exported.shown
    /\ \E i, j \in DOMAIN exported.columns :
          exported.columns[i].country # exported.columns[j].country
    /\ Len(exported.index) >= 3
    /\ \E y \in DOMAIN exported.rows : \E j \in DOMAIN exported.columns :
          exported.rows[y][j].nan

\* ---------------------------------------------------------------------
\* the CSV read back

\* the fields of a text between the separators
RECURSIVE SplitOn(_, _)
SplitOn(s, sep) ==
    IF \A i \in DOMAIN s : s[i] # sep THEN <<s>>
    ELSE LET k == SetMin({i \in DOMAIN s : s[i] = sep})
         IN <<SubSeq(s, 1, k - 1)>> \o SplitOn(SubSeq(s, k + 1, Len(s)), sep)

\* the number written by a sequence of digits
RECURSIVE ParseNat(_)
ParseNat(ds) ==
    IF ds = <<>> THEN 0
    ELSE ParseNat(SubSeq(ds, 1, Len(ds) - 1)) * 10
         + ((CHOOSE i \in DOMAIN Digits : Digits[i] = ds[Len(ds)]) - 1)

\* the thousandths counted by a decimal text of at most three decimals
ParseThousandths(txt) ==
    LET neg == txt # <<>> /\ Head(txt) = "-"
        body == IF neg THEN Tail(txt) ELSE txt
        parts == SplitOn(body, ".")
        dec == IF Len(parts) >= 2 THEN parts[2] ELSE <<>>
        padded == dec \o [i \in 1..(3 - Len(dec)) |-> "0"]
    IN (IF neg THEN -1 ELSE 1) * (ParseNat(parts[1]) * 1000 + ParseNat(padded))

\* the table read from a CSV text: the names of the header after its first
\* field, and per line the year of the first field and the other fields
ReadCsv(text) ==
    LET lines == SelectSeq(SplitOn(text, "\n"), LAMBDA l : l # <<>>)
        table == [i \in DOMAIN lines |-> SplitOn(lines[i], ",")]
    IN [names |-> [j \in 1..(Len(table[1]) - 1) |-> table[1][j + 1][1]],
        rows |-> [i \in 1..(Len(table) - 1) |->
                    [year |-> ParseNat(table[i + 1][1]),
                     fields |-> Tail(table[i + 1])]]]

\* the (year, thousandths) pairs of column j of a table read: a pair per
\* line whose field is not empty
ReadPairs(tbl, j) ==
    {<<tbl.rows[i].year, ParseThousandths(tbl.rows[i].fields[j])>> :
        i \in {i \in DOMAIN tbl.rows : tbl.rows[i].fields[j] # <<>>}}

\* a count m of thousandths is the value v (in units of 10^-5) rounded to
\* three decimal places
IsRounded3(m, v) == m * 100 - v <= 50 /\ v - m * 100 <= 50

\* C20: round trip: the CSV text exported, read back, has one column per
\* (country, indicator) with data, under its name, and the column's (year,
\* value) pairs are those of the assembled historical+forecast series with
\* the values rounded to 3 decimal places: every point of the series is read
\* back at its year with its value rounded, and nothing else is read back.
C20_CsvRoundTrip ==
    exported.shown =>
        LET tbl == ReadCsv(exported.csv)
        IN /\ Len(tbl.names) = Cardinality(PairsWithData)
           /\ \A pr \in PairsWithData :
                 \E j \in DOMAIN tbl.names :
                    /\ tbl.names[j] = ColName(pr.country, pr.key)
                    /\ \A p \in PairPoints(pr) :
                          ~p.nan =>
                             \E rp \in ReadPairs(tbl, j) :
                                rp[1] = p.y /\ IsRounded3(rp[2], p.v)
                    /\ \A rp \in ReadPairs(tbl, j) :
                          \E p \in PairPoints(pr) :
                             ~p.nan /\ rp[1] = p.y /\ IsRounded3(rp[2], p.v)

\* a CSV exported with columns of two countries, a value that rounding
\* changed upwards in size (-1.23456 written as -1.235), a value rounded to a
\* negative zero, and an empty field
C20_Witness ==
    /\ exported.shown
    /\ \E i, j \in DOMAIN exported.columns :
          exported.columns[i].country # exported.columns[j].country
    /\ \E y \in DOMAIN exported.rows : \E j \in DOMAIN exported.columns :
          /\ ~exported.rows[y][j].nan
          /\ exported.rows[y][j].m = -1235
    /\ \E y \in DOMAIN exported.rows : \E j \in DOMAIN exported.columns :
          /\ ~exported.rows[y][j].nan
          /\ exported.rows[y][j].m = 0 /\ exported.rows[y][j].neg
    /\ \E y \in DOMAIN exported.rows : \E j \in DOMAIN exported.columns :
          exported.rows[y][j].nan
    /\ \E i \in DOMAIN exported.csv : exported.csv[i] = "-"

\* ---------------------------------------------------------------------
\* the session's key and the session's dataset

\* what the macro fetch loop assembles for the inputs of the run
FetchedForInputs ==
    [c \in Range(sel_countries) |->
        [key \in {weo_tasks[i].key : i \in DOMAIN weo_tasks} |->
            LET task == CHOOSE tk \in Range(weo_tasks) : tk.key = key
            IN MacroEntry(WeoAnswer(world, task.weo_code, GetWeo(COUNTRIES[c])),
                          start_yr, end_yr, include_forecast)]]

\* C23: whenever the run goes on to display with session_state.macro_key
\* equal to the fetch key of its inputs, session_state.macro_cache holds the
\* results fetched for that key, also after a run that was stopped between
\* setting macro_key and storing macro_cache.
C23_CacheHoldsResultsOfKey ==
    (pc \in {"display"} \cup AfterDisplay /\ macro_key = fetch_key) =>
        macro_cache = FetchedForInputs

\* ---------------------------------------------------------------------
\* the values the WEO fetchers keep

\* the provider's value is a number: a JSON number or a numeric string
Numeric(val) == val.t \in {"num", "str"}

\* C24: fetch_weo_series and fetch_weo_world, on a response read without
\* failure, keep every year whose value is numeric, a value of exactly 0
\* included, with that value.
C24_EveryNumericValueKept ==
    /\ (Returned("fetch_weo_series") /\ ~ResponseFailed) =>
          \A i \in DOMAIN fcall.resp.items :
             (Numeric(fcall.resp.items[i].val) /\ fcall.resp.items[i].k.form = "plain") =>
                \E p \in Range(fret.s) :
                   /\ p.y = fcall.resp.items[i].k.y
                   /\ ~p.nan /\ p.v = fcall.resp.items[i].val.n
    /\ (Returned("fetch_weo_world") /\ ~ResponseFailed) =>
          \A r \in DOMAIN fcall.resp.rows :
             \A i \in DOMAIN fcall.resp.rows[r].items :
                LET row == fcall.resp.rows[r]
                    e == row.items[i]
                IN (row.isdict /\ Numeric(e.val) /\ e.k.form = "plain") =>
                      /\ row.iso \in DOMAIN fret.df.rows
                      /\ e.k.y \in DOMAIN fret.df.rows[row.iso]
                      /\ fret.df.rows[row.iso][e.k.y] = e.val.n

\* ---------------------------------------------------------------------
\* the historical and forecast parts of an entry

\* hist and fcast of entry e split the series fetched for (country, key),
\* restricted to the years of the run: no year in both, and the points of
\* the two together are the fetched points of the range
SplitsFetched(e, country, key) ==
    LET task == CHOOSE tk \in Range(weo_tasks) : tk.key = key
        fetched == WeoAnswer(world, task.weo_code, GetWeo(COUNTRIES[country])).s
    IN fetched # EmptySeries =>
          /\ SeriesYears(e.hist) \cap SeriesYears(e.fcast) = {}
          /\ Range(e.hist) \cup Range(e.fcast)
                = {p \in Range(fetched) : start_yr <= p.y /\ p.y <= end_yr}
          /\ Len(e.hist) + Len(e.fcast)
                = Cardinality({p.y : p \in {q \in Range(fetched) :
                                               start_yr <= q.y /\ q.y <= end_yr}})

\* C25: with forecasts included, every entry the fetch loop has assembled
\* from a non-empty WEO series (the dict of the country under way and the
\* dicts of the countries done) splits the fetched series restricted to
\* [start_yr, end_yr] into its historical and forecast parts: the parts
\* share no year and every fetched year of the range is in exactly one of
\* them, with its fetched value.
C25_HistAndForecastPartition ==
    (include_forecast /\ pc \in {"fetch", "display"} \cup AfterDisplay) =>
        /\ \A c \in DOMAIN cache : \A key \in DOMAIN cache[c] :
              SplitsFetched(cache[c][key], c, key)
        /\ \A key \in DOMAIN cd :
              SplitsFetched(cd[key], sel_countries[(step \div Len(weo_tasks)) + 1], key)

\* the loop has assembled an entry whose historical and forecast parts both
\* have points
C25_Witness ==
    /\ include_forecast
    /\ pc = "fetch"
    /\ \E c \in DOMAIN cache : \E key \in DOMAIN cache[c] :
          /\ cache[c][key].hist # EmptySeries
          /\ cache[c][key].fcast # EmptySeries

\* ---------------------------------------------------------------------
\* the helpers

\* C26: for every selectable pair start_yr < end_yr of the sidebar (years
\* 1980 .. this_year + 6), the default value min(this_year, end_yr) of the
\* World Map year slider lies within its bounds [max(start_yr, 1980),
\* end_yr].
C26_SliderDefaultWithinBounds ==
    Returned("map_slider") =>
        /\ fret.min_value <= fret.value
        /\ fret.value <= fret.max_value

\* C27: clip_years(s, start, end) returns exactly the entries of s whose
\* year y has start <= y <= end, in their original order and with their
\* values; an empty series is returned as it is; and clipping the result
\* again with the same bounds changes nothing.
C27_ClipKeepsTheYearsInRange ==
    Returned("clip_years") =>
        LET inside == {i \in DOMAIN fcall.s :
                          fcall.start <= fcall.s[i].y /\ fcall.s[i].y <= fcall.end}
        IN /\ Len(fret.s) = Cardinality(inside)
           /\ \A k \in DOMAIN fret.s :
                 \E i \in inside :
                    /\ fret.s[k] = fcall.s[i]
                    /\ Cardinality({j \in inside : j < i}) = k - 1
           /\ fcall.s = <<>> => fret.s = <<>>
           /\ clip_years(fret.s, fcall.start, fcall.end) = fret.s

\* a series of three years clipped to its last two, one of them with a NaN
\* value: the first entry is dropped and the two others are returned
C27_Witness ==
    /\ Returned("clip_years")
    /\ Len(fcall.s) = 3
    /\ fcall.start = fcall.s[2].y
    /\ fcall.end = fcall.s[3].y
    /\ fcall.s[3].nan
    /\ fret.s = Tail(fcall.s)

\* ---------------------------------------------------------------------
\* the rebased equity chart

\* C30: in the chart "Rebased to 100 (base = start_yr)" of the Markets tab,
\* every index drawn has the value 100 in the year start_yr.
C30_RebasedIs100AtStartYear ==
    \A i \in DOMAIN charts :
       charts[i].title.text = "Rebased to 100" =>
          \A k \in DOMAIN charts[i].data :
             \E p \in Range(charts[i].data[k].points) :
                p.y = start_yr /\ ~p.nan /\ p.v = 100

-----------------------------------------------------------------------------
(* lettre_mission.py: the mission letter generator                         *)
(*                                                                         *)
(* A line typed at the terminal is a sequence of characters, so that       *)
(* str.strip, str.lower, str.replace and str.endswith are computed on it.  *)

\* the largest number of items typed in one list
MaxItems == 2

Blank == {" "}

\* str.strip(): the leading and the trailing whitespace is removed
RECURSIVE LStrip(_)
LStrip(s) == IF s # <<>> /\ Head(s) \in Blank THEN LStrip(Tail(s)) ELSE s

RECURSIVE RStrip(_)
RStrip(s) ==
    IF s # <<>> /\ s[Len(s)] \in Blank THEN RStrip(SubSeq(s, 1, Len(s) - 1)) ELSE s

Strip(s) == RStrip(LStrip(s))

\* str.lower(), on the letters the typed lines are made of
LowerChar(c) ==
    CASE c = "O" -> "o"
      [] c = "N" -> "n"
      [] c = "P" -> "p"
      [] c = "D" -> "d"
      [] c = "F" -> "f"
      [] c = "X" -> "x"
      [] OTHER -> c

Lower(s) == [i \in DOMAIN s |-> LowerChar(s[i])]

\* str.replace(old, new) for one-character strings
Replace(s, old, new) == [i \in DOMAIN s |-> IF s[i] = old THEN new ELSE s[i]]

\* str.endswith(suffix)
EndsWith(s, suffix) ==
    /\ Len(s) >= Len(suffix)
    /\ SubSeq(s, Len(s) - Len(suffix) + 1, Len(s)) = suffix

DotPdf == <<".", "p", "d", "f">>

\* ask(): what one answer does once stripped. The variant returns a blank
\* answer as it is, whatever the field.
AskOutcomeUnrequired(rep, has_default, default, required) ==
    [returns |-> TRUE, value |-> IF rep # <<>> \/ ~has_default THEN rep ELSE default]

\* ask(): a non-empty answer is returned, a blank one gives the default when
\* there is one, the empty string when the field is not required, and
\* otherwise the warning and one more turn of the loop
AskOutcome(rep, has_default, default, required) ==
    IF rep # <<>> THEN [returns |-> TRUE, value |-> rep]
    ELSE IF has_default THEN [returns |-> TRUE, value |-> default]
    ELSE IF ~required THEN [returns |-> TRUE, value |-> <<>>]
    ELSE [returns |-> FALSE]

\* ask_yesno(): rep in ("o", "oui", "y", "yes", "1")
IsYes(rep) ==
    rep \in {<<"o">>, <<"o", "u", "i">>, <<"y">>, <<"y", "e", "s">>, <<"1">>}

\* the prompts of collect_data, in the order they are asked
Req(field) == [kind |-> "ask", field |-> field, required |-> TRUE,
               has_default |-> FALSE, min_items |-> 0]
Opt(field) == [kind |-> "ask", field |-> field, required |-> FALSE,
               has_default |-> FALSE, min_items |-> 0]
Dft(field) == [kind |-> "ask", field |-> field, required |-> TRUE,
               has_default |-> TRUE, min_items |-> 0]
YesNo(field) == [kind |-> "yesno", field |-> field, required |-> FALSE,
                 has_default |-> TRUE, min_items |-> 0]
Liste(field, min_items) == [kind |-> "liste", field |-> field, required |-> FALSE,
                            has_default |-> FALSE, min_items |-> min_items]

Prompts == <<
    Req("presta_nom"), Req("presta_adresse"), Req("presta_cp"), Req("presta_ville"),
    Opt("presta_tel"), Opt("presta_email"), Opt("presta_siret"), Opt("presta_tva"),
    Req("client_societe"), Req("client_contact"), Req("client_adresse"),
    Req("client_cp"), Req("client_ville"),
    Req("mission_titre"), Opt("mission_contexte"), Dft("mission_lieu"),
    Req("mission_debut"), Req("mission_fin"),
    Liste("objectifs", 1), Liste("livrables", 0),
    Dft("honor_type"), Req("honor_montant"), Dft("honor_tva"), Dft("honor_paiement"),
    Opt("honor_acompte"),
    YesNo("confidentialite"), YesNo("propriete_intel"),
    Dft("droit"), Dft("tribunal"), Opt("notes"),
    Dft("ref"), Dft("date_doc"), Dft("output") >>

\* datetime.now(), in the formats of the reference, of the date and of the
\* file name
TodayCompact == <<"2", "0", "2", "5", "0", "3", "0", "1">>
TodaySlashed == <<"0", "1", "/", "0", "3", "/", "2", "0", "2", "5">>

\* file_default = f"lettre_mission_{safe_client}_{date}.pdf", with
\* safe_client = client_societe.replace(" ", "_").replace("/", "-")
FileDefault(d) ==
    <<"l", "e", "t", "t", "r", "e", "_", "m", "i", "s", "s", "i", "o", "n", "_">>
    \o Replace(Replace(d["client_societe"], " ", "_"), "/", "-")
    \o <<"_">> \o TodayCompact \o DotPdf

\* the default of a prompt, given the answers stored before it
DefaultOf(field, d) ==
    CASE field = "mission_lieu" -> d["client_ville"]
      [] field = "honor_type" -> <<"f", "o", "r", "f", "a", "i", "t">>
      [] field = "honor_tva" -> <<"2", "0", " ", "%">>
      [] field = "honor_paiement" -> 
            <<"3", "0", " ", "j", "o", "u", "r", "s", " ", "f", "i", "n", " ", "d", "e", " ", "m", "o", "i", "s">>
      [] field \in {"confidentialite", "propriete_intel"} -> <<"o", "u", "i">>
      [] field = "droit" ->       \* "droit francais", with its cedilla
            <<"d", "r", "o", "i", "t", " ", "f", "r", "a", "n", "c", "a", "i", "s">>
      [] field = "tribunal" -> <<"P", "a", "r", "i", "s">>
      [] field = "ref" -> <<"L", "M", "-">> \o TodayCompact
      [] field = "date_doc" -> TodaySlashed
      [] field = "output" -> FileDefault(d)
      [] OTHER -> <<>>

\* collect_data: what is stored for a prompt once ask() returned
Stored(p, value) ==
    CASE p.kind = "yesno" -> IsYes(Lower(value))
      [] p.field = "output" ->
            IF EndsWith(Lower(value), DotPdf) THEN value ELSE value \o DotPdf
      [] OTHER -> value

\* the lines typed at a prompt
TypedLines(p) ==
    CASE p.kind = "liste" -> {<<>>, <<" ">>, <<"x", " ">>}
      [] p.kind = "yesno" -> {<<>>, <<"n", "o", "n">>, <<" ", "O">>}
      [] p.field = "output" -> {<<>>, <<"x">>, <<"x", ".", "P", "D", "F">>}
      [] p.field = "mission_lieu" -> {<<>>, <<"x">>}
      [] p.has_default -> {<<>>}
      [] p.required -> {<<>>, <<" ">>, <<" ", "x">>}
      [] OTHER -> {<<>>, <<"x">>}

\* what one call of input() gives: a line, Ctrl-C, or the end of the input
Reads(p) ==
    {[exc |-> "none", line |-> l] : l \in TypedLines(p)}
    \cup {[exc |-> e, line |-> <<>>] : e \in {"KeyboardInterrupt", "EOFError"}}

\* art_num += 1; the variant leaves the number as it is
BumpNot(art_num) == art_num

Bump(art_num) == art_num + 1

\* generate_pdf: the article headers of the story, each f"Article {numero} -
\* {titre}", in the order they are appended
Articles(d) ==
    LET Header(titre, numero) == [titre |-> titre, numero |-> numero]
        n0 == 5
        conf == IF d["confidentialite"]
                THEN <<Header("Confidentialite", n0)>> ELSE <<>>
        n1 == IF d["confidentialite"] THEN Bump(n0) ELSE n0
        prop == IF d["propriete_intel"]
                THEN <<Header("Propriete intellectuelle", n1)>> ELSE <<>>
        n2 == IF d["propriete_intel"] THEN Bump(n1) ELSE n1
        notes == IF d["notes"] # <<>>
                 THEN <<Header("Dispositions complementaires", n2)>> ELSE <<>>
        n3 == IF d["notes"] # <<>> THEN Bump(n2) ELSE n2
    IN  << Header("Objet de la mission", 1),
           Header("Duree et lieu d'execution", 2),
           Header("Livrables", 3),
           Header("Honoraires et conditions financieres", 4) >>
        \o conf \o prop \o notes
        \o <<Header("Droit applicable et reglement des litiges", n3)>>

\* the messages written to the terminal
MsgRequired == "Ce champ est requis."
MsgMinItems == "Saisissez au moins {min_items} element(s)."
MsgCancelled == "Annule."
MsgCancelledByUser == "Annule par l'utilisateur."
MsgSuccess == "PDF genere avec succes !"
MsgError == "[ERREUR] Impossible de generer le PDF"
MsgTraceback == "Traceback (most recent call last)"

\* data["livrables"] when no deliverable was typed
LivrablesDefault ==
    << <<"A", " ", "d", "e", "f", "i", "n", "i", "r", " ", "c", "o",
       "n", "j", "o", "i", "n", "t", "e", "m", "e", "n", "t", " ",
       "e", "n", "t", "r", "e", " ", "l", "e", "s", " ", "p", "a",
       "r", "t", "i", "e", "s">> >>

InitLetter ==
    /\ lpc = "collect"
    /\ prompt = 1
    /\ entered = <<>>
    /\ answers = <<>>
    /\ last_read = [exc |-> "none", line |-> <<>>]
    /\ printed = {}
    /\ pdf = NoPdf
    /\ exit_code = -1
    /\ MainOff
    /\ FetchOff
    /\ ChartOff
    /\ CacheOff
    /\ oil_seen = {}

NotLetter == <<mainVars, fetchVars, chartVars, history, cacheVars, netVars>>

\* the process ends: its exit code is set, and what it held in memory is gone
Exit(code, says) ==
    /\ lpc' = "exited"
    /\ exit_code' = code
    /\ printed' = printed \cup says
    /\ answers' = <<>>
    /\ entered' = <<>>
    /\ UNCHANGED <<prompt, pdf>>

\* collect_data: the answer of a prompt is stored and the next prompt comes;
\* after the last one main() goes on to generate_pdf
StoreAndGoOn(field, value) ==
    /\ answers' = Put(answers, field, value)
    /\ entered' = <<>>
    /\ IF prompt = Len(Prompts)
       THEN lpc' = "render" /\ prompt' = prompt
       ELSE lpc' = "collect" /\ prompt' = prompt + 1
    /\ UNCHANGED <<printed, pdf, exit_code>>

\* one turn of the loop of ask(), for a prompt of ask() or of ask_yesno():
\* Ctrl-C and the end of the input are caught there, and sys.exit(0) is not
\* stopped by the except KeyboardInterrupt of main()
AskInput ==
    /\ lpc = "collect"
    /\ Prompts[prompt].kind \in {"ask", "yesno"}
    /\ LET p == Prompts[prompt] IN
       \E r \in Reads(p) :
          /\ last_read' = r
          /\ IF r.exc # "none"
             THEN Exit(0, {MsgCancelled})
             ELSE LET out == AskOutcome(Strip(r.line), p.has_default,
                                        DefaultOf(p.field, answers), p.required)
                  IN  IF out.returns
                      THEN StoreAndGoOn(p.field, Stored(p, out.value))
                      ELSE /\ printed' = printed \cup {MsgRequired}
                           /\ UNCHANGED <<lpc, prompt, entered, answers, pdf, exit_code>>
    /\ UNCHANGED NotLetter

\* one turn of the loop of ask_liste(): its input() is in no try, so Ctrl-C
\* reaches the except of main() and the end of the input reaches nothing
ListeInput ==
    /\ lpc = "collect"
    /\ Prompts[prompt].kind = "liste"
    /\ LET p == Prompts[prompt] IN
       \E r \in Reads(p) :
          /\ last_read' = r
          /\ CASE r.exc = "KeyboardInterrupt" -> Exit(0, {MsgCancelledByUser})
               [] r.exc = "EOFError" -> Exit(1, {MsgTraceback})
               [] OTHER ->
                    LET val == Strip(r.line) IN
                    IF val = <<>>
                    THEN IF Len(entered) >= p.min_items
                         THEN StoreAndGoOn(p.field,
                                 IF p.field = "livrables" /\ entered = <<>>
                                 THEN LivrablesDefault ELSE entered)
                         ELSE /\ printed' = printed \cup {MsgMinItems}
                              /\ UNCHANGED <<lpc, prompt, entered, answers, pdf,
                                             exit_code>>
                    ELSE /\ Len(entered) < MaxItems
                         /\ entered' = Append(entered, val)
                         /\ UNCHANGED <<lpc, prompt, answers, printed, pdf, exit_code>>
    /\ UNCHANGED NotLetter

\* main(): generate_pdf(data) and what follows it in the try. The build
\* raises or not; on Windows os.startfile may raise once the file is there.
GeneratePdf ==
    /\ lpc = "render"
    /\ \E outcome \in {"built", "build raises", "startfile raises"} :
          /\ pdf' = IF outcome = "build raises" THEN pdf
                    ELSE [written |-> TRUE, path |-> answers["output"],
                          articles |-> Articles(answers)]
          /\ printed' = printed
                \cup (IF outcome = "build raises" THEN {} ELSE {MsgSuccess})
                \cup (IF outcome = "built" THEN {} ELSE {MsgError, MsgTraceback})
    /\ lpc' = "pause"
    /\ UNCHANGED <<prompt, entered, answers, last_read, exit_code>>
    /\ UNCHANGED NotLetter

\* main(): input("Appuyez sur Entree pour quitter..."), in no try, and the
\* return of main()
Pause ==
    /\ lpc = "pause"
    /\ \E r \in {[exc |-> e, line |-> <<>>] :
                    e \in {"none", "KeyboardInterrupt", "EOFError"}} :
          /\ last_read' = r
          /\ CASE r.exc = "none" -> Exit(0, {})
               [] r.exc = "KeyboardInterrupt" -> Exit(130, {MsgTraceback})
               [] OTHER -> Exit(1, {MsgTraceback})
    /\ UNCHANGED NotLetter

NextLetter ==
    \/ AskInput
    \/ ListeInput
    \/ GeneratePdf
    \/ Pause

SpecLetter == InitLetter /\ [][NextLetter]_vars

\* ---------------------------------------------------------------------
\* required input

\* the prompts of ask() with required=True and no default
RequiredFields ==
    {Prompts[i].field : i \in {j \in DOMAIN Prompts :
        /\ Prompts[j].kind = "ask"
        /\ Prompts[j].required
        /\ ~Prompts[j].has_default}}

\* the answer just read is blank where an answer is still required
BlankWhereRequired ==
    /\ lpc = "collect"
    /\ last_read'.exc = "none"
    /\ Strip(last_read'.line) = <<>>
    /\ \/ Prompts[prompt].field \in RequiredFields
       \/ /\ Prompts[prompt].kind = "liste"
          /\ Len(entered) < Prompts[prompt].min_items

\* C21: missing required input is asked again, as many times as it is left
\* blank: ask() with required=True and no default stays at its prompt after
\* each blank answer and returns only a non-empty string, and ask_liste()
\* returns only once at least min_items non-empty items were entered.
C21_RequiredInputIsAskedAgain ==
    /\ [](\A i \in DOMAIN Prompts :
            Prompts[i].field \in DOMAIN answers =>
               /\ Prompts[i].field \in RequiredFields =>
                     answers[Prompts[i].field] # <<>>
               /\ Prompts[i].kind = "liste" =>
                     /\ Len(answers[Prompts[i].field]) >= Prompts[i].min_items
                     /\ \A k \in DOMAIN answers[Prompts[i].field] :
                           answers[Prompts[i].field][k] # <<>>)
    /\ [][BlankWhereRequired =>
             /\ lpc' = "collect"
             /\ prompt' = prompt
             /\ answers' = answers
             /\ entered' = entered
             /\ exit_code' = -1
             /\ printed' \cap {MsgRequired, MsgMinItems} # {}]_vars

\* both warnings were shown, after a blank name and after a blank first
\* objective, and the name and the objectives were then given
C21_Witness ==
    /\ {MsgRequired, MsgMinItems} \subseteq printed
    /\ lpc = "collect"
    /\ "objectifs" \in DOMAIN answers
    /\ answers["objectifs"] = <<<<"x">>, <<"x">>>>
    /\ answers["presta_nom"] = <<"x">>

\* ---------------------------------------------------------------------
\* the exit code

\* C22: the script exits with code 0 on success, and with a non-zero exit
\* code, after printing a stack trace, when the rendering failed.
C22_ExitCodeTellsTheOutcome ==
    lpc = "exited" =>
       /\ (MsgSuccess \in printed /\ MsgError \notin printed /\ last_read.exc = "none")
             => exit_code = 0
       /\ MsgError \in printed => exit_code # 0 /\ MsgTraceback \in printed

\* ---------------------------------------------------------------------
\* cancelling

\* C28: cancelling the input, by Ctrl-C or by the end of the input, at any
\* prompt of the data collection, the list prompts of ask_liste included,
\* ends the generator with exit code 0 and no PDF is generated.
C28_CancellingExitsWithZero ==
    (/\ lpc = "exited"
     /\ last_read.exc \in {"KeyboardInterrupt", "EOFError"}
     /\ {MsgSuccess, MsgError} \cap printed = {})
        => exit_code = 0 /\ ~pdf.written

\* ---------------------------------------------------------------------
\* the numbering of the articles

\* the optional clauses a set of answers included: confidentiality,
\* intellectual property, free notes
ClausesIn(titles) ==
    Cardinality(titles \cap {"Confidentialite", "Propriete intellectuelle",
                             "Dispositions complementaires"})

\* C29: for every combination of the optional clauses the articles of the
\* generated document are numbered 1, 2, 3, ... with no gap and no repeat,
\* and the last one, "Droit applicable", has the number 5 plus the number of
\* optional clauses included.
C29_ArticlesNumberedInARow ==
    pdf.written =>
       LET a == pdf.articles IN
       /\ \A i \in DOMAIN a : a[i].numero = i
       /\ a[Len(a)].titre = "Droit applicable et reglement des litiges"
       /\ a[Len(a)].numero = 5 + ClausesIn({a[i].titre : i \in DOMAIN a})

\* a letter with the confidentiality clause and the notes but without the
\* intellectual property clause was written: its articles are 1 to 7, the
\* notes are article 6 and "Droit applicable" is article 7
C29_Witness ==
    /\ pdf.written
    /\ Len(pdf.articles) = 7
    /\ pdf.articles[5].titre = "Confidentialite"
    /\ pdf.articles[6].titre = "Dispositions complementaires"
    /\ pdf.articles[7].numero = 7
    /\ lpc = "exited"
    /\ exit_code = 0

=============================================================================
